---- MODULE Spec2Model ----
(***************************************************************************)
(* A model of papertrail-modern: the sketches (TopK, Bloom filter,         *)
(* HyperLogLog), their monoids, the Redis storage layer and the event      *)
(* processor.  Each part has its own specification over its own group of   *)
(* variables; the other groups stay at their initial value.                *)
(***************************************************************************)
EXTENDS Integers, Sequences, FiniteSets, TLC

VARIABLES
    tk,         \* TopK part: slot -> TopK object (k, items, min_count)
    tkOut,      \* TopK part: result of the last merge / plus computation
    tkOps       \* TopK part: number of operations applied so far

topkVars == <<tk, tkOut, tkOps>>

VARIABLES
    bf,         \* Bloom part: slot -> BloomFilter object
    bfAdded,    \* Bloom part: slot -> the items added to the filter or to one united into it
    bfOut       \* Bloom part: the last union, or the ValueError it raised

bloomVars == <<bf, bfAdded, bfOut>>

VARIABLES
    mnCfg,      \* monoid part: the parameters the three monoids were constructed with
    mnHll,      \* monoid part: slot -> HyperLogLog sample of HLLMonoid
    mnBloom,    \* monoid part: slot -> BloomFilter sample of the Bloom monoids
    mnOut       \* monoid part: the results of the last evaluation of the laws' two sides

monoidVars == <<mnCfg, mnHll, mnBloom, mnOut>>

VARIABLES
    redis,      \* the Redis keyspace: key -> [val, exp], exp = -1 for a key with no TTL
    now,        \* the Redis server's clock, in seconds
    published,  \* the messages published on events:stream, oldest first
    history,    \* every process_event call so far: [event, at, ok]
    out,        \* the last call made to the processor or the storage and its outcome
    ticks       \* number of clock advances so far

storeVars == <<redis, now, published>>

ingestVars == <<storeVars, history, out, ticks>>

VARIABLES
    wk,         \* race part: worker -> [pc, call, obj], a storage call in progress
    wkDone      \* race part: the storage calls that have returned, in order of return

raceVars == <<wk, wkDone>>

VARIABLES
    hl,         \* HLL part: slot -> HyperLogLog object
    hlAdded,    \* HLL part: slot -> the items added to the object, in order
    hlOut       \* HLL part: the last add or merge and its result

hllVars == <<hl, hlAdded, hlOut>>

VARIABLES
    mmValues,   \* Moments part: the list of observed values
    mmOut       \* Moments part: the Moments of the list, of its two parts and of their merge

momentsVars == <<mmValues, mmOut>>

VARIABLES
    twOut       \* time-window part: the last call of a TimeWindowBucketer method and its result

twVars == <<twOut>>

VARIABLES
    agData,     \* aggregation part: the nested dict {system: {bucket: Moments}}
    agOut       \* aggregation part: the last rollup and its result

aggVars == <<agData, agOut>>

newVars == <<aggVars>>

laterVars == <<hllVars, momentsVars, twVars, newVars>>

earlierVars == <<topkVars, bloomVars, monoidVars, ingestVars, raceVars>>

vars == <<earlierVars, laterVars>>

notHllVars == <<earlierVars, momentsVars, twVars, newVars>>

notMomentsVars == <<earlierVars, hllVars, twVars, newVars>>

notTwVars == <<earlierVars, hllVars, momentsVars, newVars>>

oldVars == <<earlierVars, hllVars, momentsVars, twVars>>

notAggVars == <<oldVars>>

notTopkVars == <<bloomVars, monoidVars, ingestVars, raceVars, laterVars>>

notBloomVars == <<topkVars, monoidVars, ingestVars, raceVars, laterVars>>

notMonoidVars == <<topkVars, bloomVars, ingestVars, raceVars, laterVars>>

notIngestVars == <<topkVars, bloomVars, monoidVars, raceVars, laterVars>>

notRaceVars ==
    <<topkVars, bloomVars, monoidVars, now, published, history, out, ticks, laterVars>>

None == "None"

\* a raised exception, as the value of the call that raised it
ValueError == [error |-> "ValueError"]

IsError(x) == "error" \in DOMAIN x

(***************************************************************************)
(* Generic helpers                                                         *)
(***************************************************************************)
Max(a, b) == IF a >= b THEN a ELSE b

Min(a, b) == IF a <= b THEN a ELSE b

RemoveAt(seq, i) == [j \in 1..(Len(seq) - 1) |-> IF j < i THEN seq[j] ELSE seq[j + 1]]

(***************************************************************************)
(* TopK (Space-Saving), app/core/sketches/count_min.py                     *)
(* items is the Python dict, kept as the sequence of its (item, count)     *)
(* entries in insertion order, which is the order min() and iteration use. *)
(***************************************************************************)
TopK(k) == [k |-> k, items |-> <<>>, min_count |-> 0]

TopKKeys(t) == {t.items[i].item : i \in 1..Len(t.items)}

TopKIndex(t, item) == CHOOSE i \in 1..Len(t.items) : t.items[i].item = item

\* self.items.get(item, 0)
TopK_query(t, item) ==
    IF item \in TopKKeys(t) THEN t.items[TopKIndex(t, item)].count ELSE 0

\* min(self.items.values())
TopKMinValue(items) ==
    CHOOSE c \in {items[i].count : i \in 1..Len(items)} :
        \A j \in 1..Len(items) : c <= items[j].count

\* min(self.items, key=self.items.get): the first entry holding the least count
TopKMinIndex(items) ==
    CHOOSE i \in 1..Len(items) :
        /\ items[i].count = TopKMinValue(items)
        /\ \A j \in 1..(i - 1) : items[j].count > items[i].count

\* TopK.add without the eviction: the new item is inserted beside the minimum
TopK_add_keeps_minimum(t, item, count) ==
    IF item \in TopKKeys(t)
    THEN [t EXCEPT !.items[TopKIndex(t, item)].count = @ + count]
    ELSE IF Len(t.items) < t.k
    THEN [t EXCEPT !.items = Append(@, [item |-> item, count |-> count]),
                   !.min_count = IF count < @ \/ @ = 0 THEN count ELSE @]
    ELSE IF count > t.min_count
    THEN LET new == Append(t.items, [item |-> item, count |-> count])
         IN  [t EXCEPT !.items = new, !.min_count = TopKMinValue(new)]
    ELSE t

TopK_add(t, item, count) ==
    IF item \in TopKKeys(t)
    THEN [t EXCEPT !.items[TopKIndex(t, item)].count = @ + count]
    ELSE IF Len(t.items) < t.k
    THEN [t EXCEPT !.items = Append(@, [item |-> item, count |-> count]),
                   !.min_count = IF count < @ \/ @ = 0 THEN count ELSE @]
    ELSE IF count > t.min_count
    THEN LET kept == RemoveAt(t.items, TopKMinIndex(t.items))
             new  == Append(kept, [item |-> item, count |-> count])
         IN  [t EXCEPT !.items = new, !.min_count = TopKMinValue(new)]
    ELSE t

RECURSIVE TopKAddAll(_, _)
\* for item, count in items: merged.add(item, count)
TopKAddAll(t, items) ==
    IF items = <<>> THEN t
    ELSE TopKAddAll(TopK_add(t, Head(items).item, Head(items).count), Tail(items))

\* TopK.merge that adds only the items of other that self does not track
TopK_merge_skips_tracked(self, other) ==
    LET fresh == {i \in 1..Len(other.items) : other.items[i].item \notin TopKKeys(self)}
        rest == [j \in 1..Cardinality(fresh) |->
                    other.items[CHOOSE i \in fresh :
                                    Cardinality({l \in fresh : l < i}) = j - 1]]
    IN  TopKAddAll(TopKAddAll(TopK(Max(self.k, other.k)), self.items), rest)

TopK_merge(self, other) ==
    TopKAddAll(TopKAddAll(TopK(Max(self.k, other.k)), self.items), other.items)

\* sorted(self.items.items(), key=count, reverse=True)[:k]; sorted() is stable
RECURSIVE SortedByCountDesc(_)
SortedByCountDesc(items) ==
    IF items = <<>> THEN <<>>
    ELSE LET best == CHOOSE i \in 1..Len(items) :
                        /\ \A j \in 1..Len(items) : items[j].count <= items[i].count
                        /\ \A j \in 1..(i - 1) : items[j].count < items[i].count
         IN  <<items[best]>> \o SortedByCountDesc(RemoveAt(items, best))

\* k = k or self.k: None and 0 both select self.k; None is passed as 0
TopK_top_k(t, k) ==
    LET kk == IF k = 0 THEN t.k ELSE k
        s  == SortedByCountDesc(t.items)
    IN  SubSeq(s, 1, Min(kk, Len(s)))

TopK_len(t) == Len(t.items)

\* TopKMonoid(k), app/core/monoids/topk_monoid.py
TopKMonoid_zero(k) == TopK(k)

TopKMonoid_plus(a, b) == TopK_merge(a, b)

(***************************************************************************)
(* Specification SpecTopK: three TopK objects driven by add and merge,     *)
(* and the two association orders of TopKMonoid.plus.                      *)
(***************************************************************************)
MaxK == 2

TopKCounts == {1, 2}

MaxTopKOps == 3

Slots == {"a", "b", "c"}

TopKItems == {"x", "y", "z"}

TopKIdle ==
    /\ tk = [s \in Slots |-> TopK(1)]
    /\ tkOut = [op |-> "none"]
    /\ tkOps = 0

\* a and b are built with one k, c with any
TopKStart ==
    /\ \E k1 \in 1..MaxK, k2 \in 1..MaxK :
          tk = [s \in Slots |-> IF s = "c" THEN TopK(k2) ELSE TopK(k1)]
    /\ tkOut = [op |-> "none"]
    /\ tkOps = 0

\* t.add(item, count) on the object in slot s
TopKAdd(s, item, count) ==
    /\ tkOps < MaxTopKOps
    /\ tk' = [tk EXCEPT ![s] = TopK_add(@, item, count)]
    /\ tkOps' = tkOps + 1
    /\ UNCHANGED <<tkOut, notTopkVars>>

\* dst = s1.merge(s2)
TopKMerge(s1, s2, dst) ==
    /\ tkOps < MaxTopKOps
    /\ tk' = [tk EXCEPT ![dst] = TopK_merge(tk[s1], tk[s2])]
    /\ tkOut' = [op |-> "merge", left |-> tk[s1], right |-> tk[s2],
                 result |-> TopK_merge(tk[s1], tk[s2])]
    /\ tkOps' = tkOps + 1
    /\ UNCHANGED notTopkVars

\* plus(plus(a, b), c) and plus(a, plus(b, c)) of one TopKMonoid(k)
TopKPlusAssoc ==
    /\ tk["a"].k = tk["b"].k
    /\ tk["b"].k = tk["c"].k
    /\ tkOut' = [op |-> "assoc",
                 lhs |-> TopKMonoid_plus(TopKMonoid_plus(tk["a"], tk["b"]), tk["c"]),
                 rhs |-> TopKMonoid_plus(tk["a"], TopKMonoid_plus(tk["b"], tk["c"]))]
    /\ UNCHANGED <<tk, tkOps, notTopkVars>>

NextTopK ==
    \/ \E s \in Slots, item \in TopKItems, count \in TopKCounts : TopKAdd(s, item, count)
    \/ \E s1 \in Slots, s2 \in Slots : TopKMerge(s1, s2, "c")
    \/ TopKPlusAssoc

TopKEntries(t) == {<<t.items[i].item, t.items[i].count>> : i \in 1..Len(t.items)}

\* C7: after any sequence of TopK.add calls on a TopK(k), k >= 1, and after
\* TopK.merge, the number of tracked items never exceeds k.
C7_SizeAtMostK ==
    /\ \A s \in Slots : TopK_len(tk[s]) <= tk[s].k
    /\ tkOut.op = "merge" => TopK_len(tkOut.result) <= tkOut.result.k

\* A full TopK has refused or evicted: some slot holds k items after more than k adds,
\* and a merge of two non-empty objects has produced a full object.
C7_Witness ==
    /\ tkOut.op = "merge"
    /\ tkOut.left.items # <<>> /\ tkOut.right.items # <<>>
    /\ TopKKeys(tkOut.left) \cup TopKKeys(tkOut.right) # TopKKeys(tkOut.result)
    /\ TopK_len(tkOut.result) = tkOut.result.k

\* C8: whenever the mapping is non-empty, min_count equals the least count
\* currently held in the mapping.
C8_MinCountIsMinimum ==
    \A s \in Slots :
        tk[s].items # <<>> => tk[s].min_count = TopKMinValue(tk[s].items)

\* C9: TopKMonoid.plus is associative: both association orders track the
\* same items with the same counts.
C9_PlusAssociative ==
    tkOut.op = "assoc" =>
        TopKEntries(tkOut.lhs) = TopKEntries(tkOut.rhs)

\* C23: when a and b (same k) together hold at most k distinct items,
\* merge(a, b) tracks every item of either with count a[x] + b[x] and nothing
\* else, and top_k lists them in non-increasing order of the summed counts.
C23_MergeSumsCounts ==
    (/\ tkOut.op = "merge"
     /\ tkOut.left.k = tkOut.right.k
     /\ Cardinality(TopKKeys(tkOut.left) \cup TopKKeys(tkOut.right)) <= tkOut.left.k) =>
        LET listed == TopK_top_k(tkOut.result, tkOut.result.k)
        IN  /\ TopKKeys(tkOut.result) = TopKKeys(tkOut.left) \cup TopKKeys(tkOut.right)
            /\ \A x \in TopKKeys(tkOut.result) :
                  TopK_query(tkOut.result, x)
                      = TopK_query(tkOut.left, x) + TopK_query(tkOut.right, x)
            /\ {listed[i].item : i \in DOMAIN listed} = TopKKeys(tkOut.result)
            /\ \A i \in DOMAIN listed :
                  listed[i].count
                      = TopK_query(tkOut.left, listed[i].item)
                        + TopK_query(tkOut.right, listed[i].item)
            /\ \A i \in 1..(Len(listed) - 1) : listed[i].count >= listed[i + 1].count

\* a and b share the item x with different counts; the merge holds x once
C23_Witness ==
    /\ tkOut.op = "merge"
    /\ tkOut.left.k = 2 /\ tkOut.right.k = 2
    /\ TopK_query(tkOut.left, "x") = 1
    /\ TopK_query(tkOut.right, "x") = 2
    /\ TopKEntries(tkOut.result) = {<<"x", 3>>}

\* C25: whenever TopK.add evicts a tracked item to admit a new one, the count
\* inserted for the new item is strictly greater than the count the evicted
\* item held.  Slots a and b change by add only.
C25_EvictedHeldLess ==
    [][\A s \in {"a", "b"} :
          \A i \in 1..Len(tk[s].items) :
             tk[s].items[i].item \notin TopKKeys(tk'[s]) =>
                \A x \in TopKKeys(tk'[s]) \ TopKKeys(tk[s]) :
                   TopK_query(tk'[s], x) > tk[s].items[i].count]_vars

(***************************************************************************)
(* mmh3.hash(item, seed, signed=False): a 32-bit unsigned value, kept as   *)
(* its two 16-bit halves.  The table holds MurmurHash3_x86_32 of the       *)
(* sample strings for seeds 0, 1, 2.                                       *)
(***************************************************************************)
Mmh3Table ==
    ("alice" :> <<[hi |-> 19537, lo |-> 36573], [hi |-> 53798, lo |-> 56944], [hi |-> 58501, lo |-> 3498]>>) @@
    ("bob" :> <<[hi |-> 43099, lo |-> 31730], [hi |-> 62791, lo |-> 7740], [hi |-> 53318, lo |-> 56466]>>) @@
    ("dave" :> <<[hi |-> 16504, lo |-> 29389], [hi |-> 24102, lo |-> 21291], [hi |-> 4282, lo |-> 34697]>>) @@
    ("u4" :> <<[hi |-> 1948, lo |-> 22109], [hi |-> 27079, lo |-> 47319], [hi |-> 36517, lo |-> 24419]>>) @@
    ("alice:prod" :> <<[hi |-> 8922, lo |-> 21984], [hi |-> 50064, lo |-> 20513], [hi |-> 57350, lo |-> 23517]>>) @@
    ("bob:prod" :> <<[hi |-> 4909, lo |-> 59551], [hi |-> 62269, lo |-> 38999], [hi |-> 51808, lo |-> 62657]>>) @@
    ("alice:dev" :> <<[hi |-> 32650, lo |-> 15384], [hi |-> 38393, lo |-> 16562], [hi |-> 63574, lo |-> 46997]>>) @@
    ("bob:dev" :> <<[hi |-> 7104, lo |-> 17966], [hi |-> 29889, lo |-> 1001], [hi |-> 62775, lo |-> 30238]>>) @@
    ("10.0.0.1" :> <<[hi |-> 60473, lo |-> 8547], [hi |-> 26437, lo |-> 42798], [hi |-> 42653, lo |-> 6658]>>) @@
    ("10.0.0.2" :> <<[hi |-> 55884, lo |-> 62247], [hi |-> 32154, lo |-> 52218], [hi |-> 52367, lo |-> 57303]>>) @@
    ("user115" :> <<[hi |-> 10714, lo |-> 15694], [hi |-> 25233, lo |-> 52032], [hi |-> 13947, lo |-> 40259]>>) @@
    ("user139041377" :> <<[hi |-> 0, lo |-> 14], [hi |-> 60477, lo |-> 1475], [hi |-> 49581, lo |-> 5287]>>)

mmh3_hash(item, seed) == Mmh3Table[item][seed + 1]

\* hash_value % m
HashMod(h, m) == ((h.hi % m) * (65536 % m) + h.lo) % m

\* hash_value & ((1 << p) - 1), for p <= 16
HashLowBits(h, p) == h.lo % (2 ^ p)

\* hash_value >> p, for p <= 16
HashShiftRight(h, p) == h.hi * (2 ^ (16 - p)) + (h.lo \div (2 ^ p))

RECURSIVE BitOr(_, _)
\* a | b
BitOr(a, b) ==
    IF a = 0 THEN b
    ELSE IF b = 0 THEN a
    ELSE Max(a % 2, b % 2) + 2 * BitOr(a \div 2, b \div 2)

RECURSIVE BitAnd(_, _)
\* a & b
BitAnd(a, b) ==
    IF a = 0 \/ b = 0 THEN 0
    ELSE Min(a % 2, b % 2) + 2 * BitAnd(a \div 2, b \div 2)

RECURSIVE bit_length(_)
\* int.bit_length()
bit_length(w) == IF w = 0 THEN 0 ELSE 1 + bit_length(w \div 2)

\* math.ceil(a / b)
CeilDiv(a, b) == (a + b - 1) \div b

(***************************************************************************)
(* BloomFilter, app/core/sketches/bloom_filter.py                          *)
(* error_rate is a float and is kept as its decimal text.  The two sizing  *)
(* formulas use math.log; they are tabulated for the sample parameters:    *)
(* int(-2*ln(0.1)/ln(2)^2) = int(9.585) = 9, int(-3*ln(0.1)/ln(2)^2) =     *)
(* int(14.378) = 14, max(1, int(9/2*ln 2)) = 3, max(1, int(14/3*ln 2)) = 3.*)
(***************************************************************************)
BloomFilter_optimal_bit_size(n, p) ==
    CASE n = 2 /\ p = "0.1" -> 9
      [] n = 3 /\ p = "0.1" -> 14

BloomFilter_optimal_hash_count(m, n) ==
    CASE m = 9 /\ n = 2 -> 3
      [] m = 14 /\ n = 3 -> 3

BloomFilter(capacity, error_rate) ==
    LET m == BloomFilter_optimal_bit_size(capacity, error_rate)
    IN  [capacity |-> capacity, error_rate |-> error_rate,
         bit_size |-> m,
         hash_count |-> BloomFilter_optimal_hash_count(m, capacity),
         bit_array |-> [i \in 1..CeilDiv(m, 8) |-> 0]]

\* the list of positions, one per seed in range(hash_count)
BloomFilter_get_positions(self, item) ==
    [s \in 1..self.hash_count |-> HashMod(mmh3_hash(item, s - 1), self.bit_size)]

\* self.bit_array[position // 8] |= (1 << (position % 8))
BloomSetBit(bit_array, position) ==
    [bit_array EXCEPT ![(position \div 8) + 1] = BitOr(@, 2 ^ (position % 8))]

RECURSIVE BloomSetBits(_, _)
BloomSetBits(bit_array, positions) ==
    IF positions = <<>> THEN bit_array
    ELSE BloomSetBits(BloomSetBit(bit_array, Head(positions)), Tail(positions))

BloomFilter_add(self, item) ==
    [self EXCEPT !.bit_array = BloomSetBits(@, BloomFilter_get_positions(self, item))]

\* self.bit_array[position // 8] & (1 << (position % 8))
BloomTestBit(bit_array, position) ==
    BitAnd(bit_array[(position \div 8) + 1], 2 ^ (position % 8)) # 0

BloomFilter_contains(self, item) ==
    LET positions == BloomFilter_get_positions(self, item)
    IN  \A i \in 1..Len(positions) : BloomTestBit(self.bit_array, positions[i])

\* bytearray(a & b for a, b in zip(...)) in place of the union's a | b
BloomFilter_union_and(self, other) ==
    IF self.bit_size # other.bit_size \/ self.hash_count # other.hash_count
    THEN ValueError
    ELSE [BloomFilter(self.capacity, self.error_rate) EXCEPT
            !.bit_size = self.bit_size,
            !.hash_count = self.hash_count,
            !.bit_array = [i \in 1..Min(Len(self.bit_array), Len(other.bit_array)) |->
                              BitAnd(self.bit_array[i], other.bit_array[i])]]

BloomFilter_union(self, other) ==
    IF self.bit_size # other.bit_size \/ self.hash_count # other.hash_count
    THEN ValueError
    ELSE [BloomFilter(self.capacity, self.error_rate) EXCEPT
            !.bit_size = self.bit_size,
            !.hash_count = self.hash_count,
            !.bit_array = [i \in 1..Min(Len(self.bit_array), Len(other.bit_array)) |->
                              BitOr(self.bit_array[i], other.bit_array[i])]]

BloomFilter_intersection(self, other) ==
    IF self.bit_size # other.bit_size \/ self.hash_count # other.hash_count
    THEN ValueError
    ELSE [BloomFilter(self.capacity, self.error_rate) EXCEPT
            !.bit_size = self.bit_size,
            !.hash_count = self.hash_count,
            !.bit_array = [i \in 1..Min(Len(self.bit_array), Len(other.bit_array)) |->
                              BitAnd(self.bit_array[i], other.bit_array[i])]]

(***************************************************************************)
(* The Bloom part: three filters driven by add and union.                  *)
(***************************************************************************)
SketchItems == {"alice", "bob", "dave", "u4"}

BloomParams == {<<2, "0.1">>, <<3, "0.1">>}

BloomIdle ==
    /\ bf = [s \in Slots |-> BloomFilter(2, "0.1")]
    /\ bfAdded = [s \in Slots |-> {}]
    /\ bfOut = [op |-> "none"]

BloomStart ==
    /\ bf \in [Slots -> {BloomFilter(p[1], p[2]) : p \in BloomParams}]
    /\ bfAdded = [s \in Slots |-> {}]
    /\ bfOut = [op |-> "none"]

\* bf.add(item) on the filter in slot s
BloomAdd(s, item) ==
    /\ bf' = [bf EXCEPT ![s] = BloomFilter_add(@, item)]
    /\ bfAdded' = [bfAdded EXCEPT ![s] = @ \cup {item}]
    /\ bfOut' = [op |-> "add"]
    /\ UNCHANGED notBloomVars

\* dst = s1.union(s2); a ValueError leaves every filter as it was
BloomUnion(s1, s2, dst) ==
    LET r == BloomFilter_union(bf[s1], bf[s2])
    IN  IF IsError(r)
        THEN /\ bfOut' = [op |-> "ValueError", left |-> s1, right |-> s2]
             /\ UNCHANGED <<bf, bfAdded, notBloomVars>>
        ELSE /\ bf' = [bf EXCEPT ![dst] = r]
             /\ bfAdded' = [bfAdded EXCEPT ![dst] = bfAdded[s1] \cup bfAdded[s2]]
             /\ bfOut' = [op |-> "union", dst |-> dst,
                          leftAdded |-> bfAdded[s1], rightAdded |-> bfAdded[s2]]
             /\ UNCHANGED notBloomVars

BloomNext ==
    \/ \E s \in Slots, item \in SketchItems : BloomAdd(s, item)
    \/ \E s1 \in Slots, s2 \in Slots : BloomUnion(s1, s2, "c")

\* C5: no false negatives across adds and unions: contains(x) is true in a
\* filter for every x added to it or to any filter united into it.
C5_NoFalseNegatives ==
    \A s \in Slots : \A x \in bfAdded[s] : BloomFilter_contains(bf[s], x)

\* A union of two filters that hold different, non-empty item sets has been stored.
C5_Witness ==
    /\ bfOut.op = "union"
    /\ bfOut.leftAdded # {} /\ bfOut.rightAdded # {}
    /\ bfOut.leftAdded \cap bfOut.rightAdded = {}
    /\ bfAdded[bfOut.dst] = bfOut.leftAdded \cup bfOut.rightAdded
    /\ \E x \in SketchItems \ bfAdded[bfOut.dst] : ~BloomFilter_contains(bf[bfOut.dst], x)

(***************************************************************************)
(* HyperLogLog, app/core/sketches/hyperloglog.py (alpha, a float used only *)
(* by cardinality(), is left out).                                         *)
(***************************************************************************)
HyperLogLog(precision) ==
    IF ~(4 <= precision /\ precision <= 16)
    THEN ValueError
    ELSE [precision |-> precision,
          m |-> 2 ^ precision,
          registers |-> [i \in 1..(2 ^ precision) |-> 0]]

\* leading zeros counted over the 32-bit word instead of the 32-p bits of w
HyperLogLog_leading_zeros_of_word(self, w) == 32 - bit_length(w)

HyperLogLog_leading_zeros(self, w) ==
    IF w = 0 THEN 32 - self.precision
    ELSE (32 - self.precision) - bit_length(w)

\* the register is overwritten instead of raised to the maximum
HyperLogLog_add_overwrites(self, item) ==
    LET hash_value    == mmh3_hash(item, 0)
        bucket        == HashLowBits(hash_value, self.precision)
        w             == HashShiftRight(hash_value, self.precision)
        leading_zeros == HyperLogLog_leading_zeros(self, w) + 1
    IN  [self EXCEPT !.registers[bucket + 1] = leading_zeros]

HyperLogLog_add(self, item) ==
    LET hash_value    == mmh3_hash(item, 0)
        bucket        == HashLowBits(hash_value, self.precision)
        w             == HashShiftRight(hash_value, self.precision)
        leading_zeros == HyperLogLog_leading_zeros(self, w) + 1
    IN  [self EXCEPT !.registers[bucket + 1] = Max(@, leading_zeros)]

\* self's registers in place of max(a, b)
HyperLogLog_merge_keeps_self(self, other) ==
    IF self.precision # other.precision
    THEN ValueError
    ELSE [HyperLogLog(self.precision) EXCEPT !.registers = self.registers]

\* min(a, b) in place of the merge's max(a, b)
HyperLogLog_merge_min(self, other) ==
    IF self.precision # other.precision
    THEN ValueError
    ELSE [HyperLogLog(self.precision) EXCEPT
            !.registers = [i \in 1..Min(Len(self.registers), Len(other.registers)) |->
                              Min(self.registers[i], other.registers[i])]]

HyperLogLog_merge(self, other) ==
    IF self.precision # other.precision
    THEN ValueError
    ELSE [HyperLogLog(self.precision) EXCEPT
            !.registers = [i \in 1..Min(Len(self.registers), Len(other.registers)) |->
                              Max(self.registers[i], other.registers[i])]]

(***************************************************************************)
(* The monoids, app/core/monoids/hll_monoid.py and bloom_monoid.py.        *)
(* HLLMonoid.plus returns a + b, which is HyperLogLog.__add__, i.e. merge. *)
(* A plus whose operand is already an exception propagates it.             *)
(***************************************************************************)
HLLMonoid_zero(precision) == HyperLogLog(precision)

HLLMonoid_plus(a, b) ==
    IF IsError(a) THEN a
    ELSE IF IsError(b) THEN b
    ELSE IF a.precision # b.precision THEN ValueError
    ELSE HyperLogLog_merge(a, b)

BloomFilterUnionMonoid_zero(capacity, error_rate) == BloomFilter(capacity, error_rate)

BloomFilterUnionMonoid_plus(a, b) ==
    IF IsError(a) THEN a
    ELSE IF IsError(b) THEN b
    ELSE BloomFilter_union(a, b)

BloomFilterIntersectionMonoid_zero(capacity, error_rate) ==
    LET bloom == BloomFilter(capacity, error_rate)
    IN  [bloom EXCEPT !.bit_array = [i \in 1..Len(bloom.bit_array) |-> 255]]

BloomFilterIntersectionMonoid_plus(a, b) ==
    IF IsError(a) THEN a
    ELSE IF IsError(b) THEN b
    ELSE BloomFilter_intersection(a, b)

(***************************************************************************)
(* The monoid part: samples a, b, c of each monoid's value type, built     *)
(* from the monoid's zero by add, and the two sides of each law.           *)
(***************************************************************************)
HLLPrecisions == {4, 5}

MonoidIdle ==
    /\ mnCfg = [precision |-> 4, capacity |-> 2, error_rate |-> "0.1"]
    /\ mnHll = [s \in Slots |-> HLLMonoid_zero(4)]
    /\ mnBloom = [s \in Slots |-> BloomFilterUnionMonoid_zero(2, "0.1")]
    /\ mnOut = [op |-> "none"]

MonoidStart ==
    /\ mnCfg \in {[precision |-> p, capacity |-> q[1], error_rate |-> q[2]] :
                    p \in HLLPrecisions, q \in BloomParams}
    /\ mnHll = [s \in Slots |-> HLLMonoid_zero(mnCfg.precision)]
    /\ mnBloom = [s \in Slots |->
                    BloomFilterUnionMonoid_zero(mnCfg.capacity, mnCfg.error_rate)]
    /\ mnOut = [op |-> "none"]

\* sample.add(item) on the HLL and the Bloom sample in slot s
MonoidSampleAdd(s, item) ==
    /\ mnHll' = [mnHll EXCEPT ![s] = HyperLogLog_add(@, item)]
    /\ mnBloom' = [mnBloom EXCEPT ![s] = BloomFilter_add(@, item)]
    /\ mnOut' = [op |-> "add"]
    /\ UNCHANGED <<mnCfg, notMonoidVars>>

\* both sides of the identity and associativity laws, for the three monoids
MonoidLaws ==
    LET hz == HLLMonoid_zero(mnCfg.precision)
        uz == BloomFilterUnionMonoid_zero(mnCfg.capacity, mnCfg.error_rate)
        iz == BloomFilterIntersectionMonoid_zero(mnCfg.capacity, mnCfg.error_rate)
        ha == mnHll["a"]
        hb == mnHll["b"]
        hc == mnHll["c"]
        ba == mnBloom["a"]
        bb == mnBloom["b"]
        bc == mnBloom["c"]
    IN  /\ mnOut' =
             [op |-> "laws",
              hll |-> [a  |-> ha,
                       zl |-> HLLMonoid_plus(hz, ha),
                       zr |-> HLLMonoid_plus(ha, hz),
                       l  |-> HLLMonoid_plus(HLLMonoid_plus(ha, hb), hc),
                       r  |-> HLLMonoid_plus(ha, HLLMonoid_plus(hb, hc))],
              union |-> [a  |-> ba,
                         zl |-> BloomFilterUnionMonoid_plus(uz, ba),
                         zr |-> BloomFilterUnionMonoid_plus(ba, uz),
                         l  |-> BloomFilterUnionMonoid_plus(
                                    BloomFilterUnionMonoid_plus(ba, bb), bc),
                         r  |-> BloomFilterUnionMonoid_plus(
                                    ba, BloomFilterUnionMonoid_plus(bb, bc))],
              inter |-> [a  |-> ba,
                         zl |-> BloomFilterIntersectionMonoid_plus(iz, ba),
                         zr |-> BloomFilterIntersectionMonoid_plus(ba, iz)]]
        /\ UNCHANGED <<mnCfg, mnHll, mnBloom, notMonoidVars>>

MonoidNext ==
    \/ \E s \in Slots, item \in SketchItems : MonoidSampleAdd(s, item)
    \/ MonoidLaws

MaxHllAdds == 3

HllSlots == {"a", "b"}

HllItems == {"alice", "user115", "user139041377"}

HllIdle ==
    /\ hl = [s \in HllSlots \cup {"u"} |-> HyperLogLog(4)]
    /\ hlAdded = [s \in HllSlots |-> <<>>]
    /\ hlOut = [op |-> "none"]

\* hll = HyperLogLog(precision) for the three objects
HllNew(precision) ==
    /\ hl' = [s \in HllSlots \cup {"u"} |-> HyperLogLog(precision)]
    /\ hlAdded' = [s \in HllSlots |-> <<>>]
    /\ hlOut' = [op |-> "new", precision |-> precision]
    /\ UNCHANGED notHllVars

\* hl[s].add(item); u.add(item)
HllAdd(s, item) ==
    /\ Len(hlAdded[s]) < MaxHllAdds
    /\ hl' = [hl EXCEPT ![s] = HyperLogLog_add(@, item), !["u"] = HyperLogLog_add(@, item)]
    /\ hlAdded' = [hlAdded EXCEPT ![s] = Append(@, item)]
    /\ hlOut' = [op |-> "add", slot |-> s, item |-> item,
                 before |-> hl[s], after |-> hl'[s]]
    /\ UNCHANGED notHllVars

\* merged = a.merge(b)
HllMerge ==
    /\ hlOut' = [op |-> "merge", self |-> hl["a"], other |-> hl["b"],
                 merged |-> HyperLogLog_merge(hl["a"], hl["b"])]
    /\ UNCHANGED <<hl, hlAdded, notHllVars>>

NextHll ==
    \/ \E precision \in HLLPrecisions : HllNew(precision)
    \/ \E s \in HllSlots, item \in HllItems : HllAdd(s, item)
    \/ HllMerge

HllItemSet(s) == {hlAdded[s][i] : i \in 1..Len(hlAdded[s])}

\* C11: a.merge(b) has the registers of the object to which every item of
\* a and of b was added, and a and b are as they were before the merge.
C11_MergeIsUnionSketch ==
    hlOut.op = "merge" =>
        /\ ~IsError(hlOut.merged)
        /\ hlOut.merged.registers = hl["u"].registers
        /\ hlOut.self = hl["a"]
        /\ hlOut.other = hl["b"]

\* a and b hold overlapping item sets, neither contained in the other, and
\* the merge differs from both of them.
C11_Witness ==
    /\ hlOut.op = "merge"
    /\ HllItemSet("a") \cap HllItemSet("b") # {}
    /\ HllItemSet("a") \ HllItemSet("b") # {}
    /\ HllItemSet("b") \ HllItemSet("a") # {}
    /\ hlOut.merged.registers # hl["a"].registers
    /\ hlOut.merged.registers # hl["b"].registers

\* C12: the registers depend only on the set of items added: an add of an
\* item added before changes no register, and two objects that received the
\* same item set, in whatever order and multiplicity, have equal registers.
C12_RegistersDependOnItemSet ==
    /\ HllItemSet("a") = HllItemSet("b") => hl["a"].registers = hl["b"].registers
    /\ (hlOut.op = "add" /\ \E i \in 1..(Len(hlAdded[hlOut.slot]) - 1) :
                                hlAdded[hlOut.slot][i] = hlOut.item)
          => hlOut.after.registers = hlOut.before.registers

\* b received two different items of one register, a received them in the
\* opposite order and then the first of them again.
C12_Witness ==
    /\ hlOut.op = "add" /\ hlOut.slot = "a"
    /\ Len(hlAdded["a"]) = 3 /\ Len(hlAdded["b"]) = 2
    /\ hlAdded["a"][1] # hlAdded["a"][2]
    /\ hlAdded["a"][3] = hlAdded["a"][1]
    /\ hlAdded["b"] = <<hlAdded["a"][2], hlAdded["a"][1]>>
    /\ HashLowBits(mmh3_hash(hlAdded["a"][1], 0), hl["a"].precision)
         = HashLowBits(mmh3_hash(hlAdded["a"][2], 0), hl["a"].precision)

\* C13: add(x) with hash H, j = H mod 2^p and w = H >> p raises register j
\* to max(reg[j], rho(w)) and changes no other register, rho(w) being one
\* more than the number of leading zeros of w as a (32-p)-bit word, which is
\* 32-p+1 for w = 0.
C13_AddRaisesOneRegister ==
    hlOut.op = "add" =>
        LET p     == hlOut.before.precision
            H     == mmh3_hash(hlOut.item, 0)
            j     == HashLowBits(H, p)
            w     == HashShiftRight(H, p)
            zeros == CHOOSE n \in 0..(32 - p) :
                        /\ w < 2 ^ (32 - p - n)
                        /\ n = 32 - p \/ w >= 2 ^ (32 - p - n - 1)
        IN  hlOut.after.registers =
                [hlOut.before.registers EXCEPT ![j + 1] = Max(@, 1 + zeros)]

\* the last add was of an item with w = 0 and it raised the register
C13_Witness ==
    /\ hlOut.op = "add"
    /\ HashShiftRight(mmh3_hash(hlOut.item, 0), hlOut.before.precision) = 0
    /\ hlOut.after.registers # hlOut.before.registers
    /\ \E i \in 1..Len(hlOut.before.registers) : hlOut.before.registers[i] > 1

\* C13 as stated, with rho(0) = 32-p
C13_RhoOfZeroIsWidth ==
    hlOut.op = "add" =>
        LET p     == hlOut.before.precision
            H     == mmh3_hash(hlOut.item, 0)
            j     == HashLowBits(H, p)
            w     == HashShiftRight(H, p)
            zeros == CHOOSE n \in 0..(32 - p) :
                        /\ w < 2 ^ (32 - p - n)
                        /\ n = 32 - p \/ w >= 2 ^ (32 - p - n - 1)
            rho   == IF w = 0 THEN 32 - p ELSE 1 + zeros
        IN  hlOut.after.registers =
                [hlOut.before.registers EXCEPT ![j + 1] = Max(@, rho)]

(***************************************************************************)
(* Moments and MomentsMonoid, app/core/monoids/moments_monoid.py.          *)
(* A float is modelled by the exact rational <<numerator, denominator>> in *)
(* lowest terms: the arithmetic below is Python's without the rounding of  *)
(* each operation to 53 bits.                                              *)
(***************************************************************************)
RECURSIVE Gcd(_, _)
Gcd(a, b) == IF b = 0 THEN a ELSE Gcd(b, a % b)

\* float(n) / float(d), d # 0
Float(n, d) ==
    LET g == Gcd(IF n < 0 THEN -n ELSE n, IF d < 0 THEN -d ELSE d)
    IN  IF d < 0 THEN <<(-n) \div g, (-d) \div g>> ELSE <<n \div g, d \div g>>

\* a + b, a - b, a * b, a / b
float_op(a, op, b) ==
    CASE op = "+" -> Float(a[1] * b[2] + b[1] * a[2], a[2] * b[2])
      [] op = "-" -> Float(a[1] * b[2] - b[1] * a[2], a[2] * b[2])
      [] op = "*" -> Float(a[1] * b[1], a[2] * b[2])
      [] op = "/" -> Float(a[1] * b[2], a[2] * b[1])

Moments(m0, m1, m2, m3, m4) == [m0 |-> m0, m1 |-> m1, m2 |-> m2, m3 |-> m3, m4 |-> m4]

MomentsMonoid_zero == Moments(0, Float(0, 1), Float(0, 1), Float(0, 1), Float(0, 1))

\* the counts and the means are combined, M2, M3 and M4 are added without
\* their delta terms
MomentsMonoid_plus_without_delta_terms(a, b) ==
    IF a.m0 = 0 THEN b
    ELSE IF b.m0 = 0 THEN a
    ELSE Moments(a.m0 + b.m0,
                 float_op(float_op(float_op(Float(a.m0, 1), "*", a.m1), "+",
                                   float_op(Float(b.m0, 1), "*", b.m1)),
                          "/", Float(a.m0 + b.m0, 1)),
                 float_op(a.m2, "+", b.m2), float_op(a.m3, "+", b.m3),
                 float_op(a.m4, "+", b.m4))

MomentsMonoid_plus(a, b) ==
    IF a.m0 = 0 THEN b
    ELSE IF b.m0 = 0 THEN a
    ELSE
    LET n_a    == Float(a.m0, 1)
        n_b    == Float(b.m0, 1)
        n      == Float(a.m0 + b.m0, 1)
        mul(x, y) == float_op(x, "*", y)
        div(x, y) == float_op(x, "/", y)
        add(x, y) == float_op(x, "+", y)
        sub(x, y) == float_op(x, "-", y)
        delta  == sub(b.m1, a.m1)
        delta2 == mul(delta, delta)
        delta3 == mul(delta, delta2)
        delta4 == mul(delta2, delta2)
        m1 == div(add(mul(n_a, a.m1), mul(n_b, b.m1)), n)
        m2 == add(add(a.m2, b.m2), div(mul(mul(delta2, n_a), n_b), n))
        m3 == add(add(add(a.m3, b.m3),
                      div(mul(mul(mul(delta3, n_a), n_b), sub(n_a, n_b)), mul(n, n))),
                  div(mul(mul(Float(3, 1), delta),
                          sub(mul(n_a, b.m2), mul(n_b, a.m2))), n))
        m4 == add(add(add(add(a.m4, b.m4),
                          div(mul(mul(mul(delta4, n_a), n_b),
                                  add(sub(mul(n_a, n_a), mul(n_a, n_b)), mul(n_b, n_b))),
                              mul(mul(n, n), n))),
                      div(mul(mul(Float(6, 1), delta2),
                              add(mul(mul(n_a, n_a), b.m2), mul(mul(n_b, n_b), a.m2))),
                          mul(n, n))),
                  div(mul(mul(Float(4, 1), delta),
                          sub(mul(n_a, b.m3), mul(n_b, a.m3))), n))
    IN  Moments(a.m0 + b.m0, m1, m2, m3, m4)

MomentsMonoid_from_value(value) ==
    Moments(1, Float(value, 1), Float(0, 1), Float(0, 1), Float(0, 1))

RECURSIVE MomentsMonoid_sum(_)
\* Monoid.sum: reduce(self.plus, items, self.zero())
MomentsMonoid_sum(items) ==
    IF items = <<>> THEN MomentsMonoid_zero
    ELSE MomentsMonoid_plus(MomentsMonoid_sum(SubSeq(items, 1, Len(items) - 1)),
                            items[Len(items)])

MomentsMonoid_from_values(values) ==
    MomentsMonoid_sum([i \in 1..Len(values) |-> MomentsMonoid_from_value(values[i])])

(***************************************************************************)
(* The Moments part: a list of values grows by one value at a time and is  *)
(* split at a point i; the Moments of the two parts are merged.            *)
(***************************************************************************)
MaxValues == 3

MomentValues == {-2, 0, 1, 3}

MomentsIdle ==
    /\ mmValues = <<>>
    /\ mmOut = [op |-> "none"]

\* values.append(value)
MomentsAppend(value) ==
    /\ Len(mmValues) < MaxValues
    /\ mmValues' = Append(mmValues, value)
    /\ mmOut' = [op |-> "append"]
    /\ UNCHANGED notMomentsVars

\* monoid.plus(monoid.from_values(values[:i]), monoid.from_values(values[i:]))
MomentsSplit(i) ==
    /\ mmOut' = [op |-> "split", i |-> i,
                 a |-> MomentsMonoid_from_values(SubSeq(mmValues, 1, i)),
                 b |-> MomentsMonoid_from_values(SubSeq(mmValues, i + 1, Len(mmValues))),
                 whole |-> MomentsMonoid_from_values(mmValues),
                 merged |-> MomentsMonoid_plus(
                                MomentsMonoid_from_values(SubSeq(mmValues, 1, i)),
                                MomentsMonoid_from_values(
                                    SubSeq(mmValues, i + 1, Len(mmValues))))]
    /\ UNCHANGED <<mmValues, notMomentsVars>>

NextMoments ==
    \/ \E value \in MomentValues : MomentsAppend(value)
    \/ \E i \in 0..Len(mmValues) : MomentsSplit(i)

RECURSIVE CentralSum(_, _, _)
\* sum of (x - mean)^k over the values x
CentralSum(values, mean, k) ==
    IF values = <<>> THEN Float(0, 1)
    ELSE LET d == float_op(Float(values[1], 1), "-", mean)
             p == [e \in 1..4 |-> CASE e = 1 -> d
                                    [] e = 2 -> float_op(d, "*", d)
                                    [] e = 3 -> float_op(d, "*", float_op(d, "*", d))
                                    [] e = 4 -> float_op(float_op(d, "*", d), "*",
                                                         float_op(d, "*", d))]
         IN  float_op(p[k], "+", CentralSum(Tail(values), mean, k))

dict_keys(d) == [i \in DOMAIN d |-> d[i][1]]

dict_values(d) == [i \in DOMAIN d |-> d[i][2]]

dict_has(d, key) == \E i \in DOMAIN d : d[i][1] = key

dict_get(d, key) == d[CHOOSE i \in DOMAIN d : d[i][1] = key][2]

\* d[key] = value
dict_set(d, key, value) ==
    IF dict_has(d, key)
    THEN [i \in DOMAIN d |-> IF d[i][1] = key THEN <<key, value>> ELSE d[i]]
    ELSE Append(d, <<key, value>>)

RECURSIVE sorted_reverse(_)
\* sorted(keys, reverse=True) of a collection of distinct keys
sorted_reverse(keys) ==
    IF keys = {} THEN <<>>
    ELSE LET top == CHOOSE a \in keys : \A b \in keys : b <= a
         IN  <<top>> \o sorted_reverse(keys \ {top})

\* an Optional[List[str]] argument: None, or a list
NoneKeys == [given |-> FALSE, keys |-> <<>>]

SomeKeys(keys) == [given |-> TRUE, keys |-> keys]

RECURSIVE present_values(_, _)
\* [windows[key] for key in window_keys if key in windows]
present_values(d, keys) ==
    IF keys = <<>> THEN <<>>
    ELSE (IF dict_has(d, Head(keys)) THEN <<dict_get(d, Head(keys))>> ELSE <<>>)
         \o present_values(d, Tail(keys))

\* an empty window_keys is falsy and selects every window, as None does
TimeWindowAggregator_aggregate_windows_empty_is_zero(windows, window_keys) ==
    IF window_keys.given
    THEN MomentsMonoid_sum(present_values(windows, window_keys.keys))
    ELSE MomentsMonoid_sum(dict_values(windows))

TimeWindowAggregator_aggregate_windows(windows, window_keys) ==
    IF window_keys.given /\ window_keys.keys # <<>>
    THEN MomentsMonoid_sum(present_values(windows, window_keys.keys))
    ELSE MomentsMonoid_sum(dict_values(windows))

TimeWindowAggregator_aggregate_last_n_windows(windows, n, sorted_keys) ==
    LET keys == IF ~sorted_keys.given
                THEN sorted_reverse({windows[i][1] : i \in DOMAIN windows})
                ELSE sorted_keys.keys
        recent_keys == SubSeq(keys, 1, Min(n, Len(keys)))
    IN  TimeWindowAggregator_aggregate_windows(windows, SomeKeys(recent_keys))

MultiSystemAggregator_aggregate_systems(systems) == MomentsMonoid_sum(dict_values(systems))

RECURSIVE concat_values(_)
\* all_items.extend(system_data.values()) for each system_data of data.values()
concat_values(data) ==
    IF data = <<>> THEN <<>>
    ELSE dict_values(Head(data)[2]) \o concat_values(Tail(data))

CompositeAggregator_aggregate_time_and_systems(data) == MomentsMonoid_sum(concat_values(data))

CompositeAggregator_aggregate_by_system(data) ==
    [i \in DOMAIN data |->
        <<data[i][1], TimeWindowAggregator_aggregate_windows(data[i][2], NoneKeys)>>]

RECURSIVE invert_windows(_, _, _)
\* the inner loop of aggregate_by_time for one system
invert_windows(time_to_systems, system_name, time_windows) ==
    IF time_windows = <<>> THEN time_to_systems
    ELSE LET time_window == Head(time_windows)[1]
             inner == IF dict_has(time_to_systems, time_window)
                      THEN dict_get(time_to_systems, time_window) ELSE <<>>
         IN  invert_windows(
                 dict_set(time_to_systems, time_window,
                          dict_set(inner, system_name, Head(time_windows)[2])),
                 system_name, Tail(time_windows))

RECURSIVE invert_nesting(_, _)
\* the outer loop of aggregate_by_time
invert_nesting(time_to_systems, data) ==
    IF data = <<>> THEN time_to_systems
    ELSE invert_nesting(invert_windows(time_to_systems, Head(data)[1], Head(data)[2]),
                        Tail(data))

\* the first system's entry of a bucket stands for the bucket
CompositeAggregator_aggregate_by_time_first_system(data) ==
    LET time_to_systems == invert_nesting(<<>>, data)
    IN  [i \in DOMAIN time_to_systems |->
            <<time_to_systems[i][1], Head(dict_values(time_to_systems[i][2]))>>]

CompositeAggregator_aggregate_by_time(data) ==
    LET time_to_systems == invert_nesting(<<>>, data)
    IN  [i \in DOMAIN time_to_systems |->
            <<time_to_systems[i][1],
              MultiSystemAggregator_aggregate_systems(time_to_systems[i][2])>>]

(***************************************************************************)
(* The aggregation part: a nested dict {system: {bucket: Moments}} is      *)
(* filled one entry at a time with the Moments of one value, then queried  *)
(* once by the rolling window or by the composite rollup.                  *)
(***************************************************************************)
MaxPuts == 3

AggSystems == {"prod", "dev"}

AggBuckets == {10, 11, 12}

AggValues == {1, 3}

AggIdle ==
    /\ agData = <<>>
    /\ agOut = [op |-> "none"]

\* data.setdefault(system, {})[bucket] = monoid.from_value(value)
AggPut(system, bucket, value) ==
    /\ agOut.op = "none"
    /\ Len(concat_values(agData)) < MaxPuts
    /\ agData' = dict_set(agData, system,
                          dict_set(IF dict_has(agData, system)
                                   THEN dict_get(agData, system) ELSE <<>>,
                                   bucket, MomentsMonoid_from_value(value)))
    /\ UNCHANGED <<agOut, notAggVars>>

\* TimeWindowAggregator(MomentsMonoid()).aggregate_last_n_windows(data[system], n)
AggLastN(system, n) ==
    /\ agOut.op = "none"
    /\ dict_has(agData, system)
    /\ agOut' = [op |-> "aggregate_last_n_windows", system |-> system, n |-> n,
                 result |-> TimeWindowAggregator_aggregate_last_n_windows(
                                dict_get(agData, system), n, NoneKeys)]
    /\ UNCHANGED <<agData, notAggVars>>

\* the three rollups of CompositeAggregator(MomentsMonoid()) on data
AggComposite ==
    /\ agOut.op = "none"
    /\ agOut' = [op |-> "composite",
                 by_system |-> CompositeAggregator_aggregate_by_system(agData),
                 by_time |-> CompositeAggregator_aggregate_by_time(agData),
                 total |-> CompositeAggregator_aggregate_time_and_systems(agData)]
    /\ UNCHANGED <<agData, notAggVars>>

NextAgg ==
    \/ \E system \in AggSystems, bucket \in AggBuckets, value \in AggValues :
          AggPut(system, bucket, value)
    \/ \E system \in AggSystems, n \in 0..MaxPuts : AggLastN(system, n)
    \/ AggComposite

\* the buckets of a dict {bucket: sketch}
BucketsOf(windows) == {windows[i][1] : i \in DOMAIN windows}

\* C21: aggregate_last_n_windows(windows, n) is the monoid sum of the
\* sketches stored under the n greatest bucket labels, for every n >= 0:
\* the monoid zero for n = 0 and the sum of all buckets for n >= their number.
C21_LastNIsSumOfNGreatest ==
    agOut.op = "aggregate_last_n_windows" =>
        LET windows == dict_get(agData, agOut.system)
            greatest == {b \in BucketsOf(windows) :
                            Cardinality({c \in BucketsOf(windows) : c > b}) < agOut.n}
            ordered == sorted_reverse(greatest)
        IN  /\ Cardinality(greatest) = Min(agOut.n, Len(windows))
            /\ agOut.result =
                  MomentsMonoid_sum([i \in DOMAIN ordered |-> dict_get(windows, ordered[i])])
            /\ agOut.n = 0 => agOut.result = MomentsMonoid_zero
            /\ agOut.n >= Len(windows) =>
                  agOut.result = MomentsMonoid_sum(dict_values(windows))

\* C22: on a nested dict, the sum of the values of aggregate_by_system, the
\* sum of the values of aggregate_by_time and aggregate_time_and_systems are
\* equal, and aggregate_by_time has one entry per bucket label that occurs
\* under any system.
C22_RollupAxesAgree ==
    agOut.op = "composite" =>
        /\ MomentsMonoid_sum(dict_values(agOut.by_system)) = agOut.total
        /\ MomentsMonoid_sum(dict_values(agOut.by_time)) = agOut.total
        /\ BucketsOf(agOut.by_time) = UNION {BucketsOf(agData[i][2]) : i \in DOMAIN agData}
        /\ Cardinality(BucketsOf(agOut.by_time)) = Len(agOut.by_time)
        /\ Len(agOut.by_system) = Len(agData)

\* two systems, one bucket under both and one under the first only, filled
\* with different values
C22_Witness ==
    /\ agOut.op = "composite"
    /\ Len(agData) = 2
    /\ Len(agOut.by_time) = 2
    /\ agOut.total.m0 = 3
    /\ agOut.total.m2 # Float(0, 1)
    /\ \E b \in BucketsOf(agData[1][2]) : b \in BucketsOf(agData[2][2])

(***************************************************************************)
(* Time windows, app/utils/time_windows.py                                 *)
(* A naive datetime is the number of seconds since 2024-01-01T00:00:00,    *)
(* a Monday and the first day of ISO week 2024-W01.  strftime("%Y-%m-%d")  *)
(* is the day's index, isocalendar()'s (year, week) is the index of the    *)
(* Monday-aligned week and "%Y-%m" is the index of the calendar month.     *)
(***************************************************************************)
TimeWindow == {"1m", "5m", "15m", "1h", "1d", "1w", "1M"}

dt_minute(ts) == (ts \div 60) % 60

dt_hour(ts) == (ts \div 3600) % 24

dt_date(ts) == ts \div 86400

dt_isoweek(ts) == dt_date(ts) \div 7

\* the lengths of the months of 2024, 2025 and 2026
MonthLengths ==
    <<31, 29, 31, 30, 31, 30, 31, 31, 30, 31, 30, 31,
      31, 28, 31, 30, 31, 30, 31, 31, 30, 31, 30, 31,
      31, 28, 31, 30, 31, 30, 31, 31, 30, 31, 30, 31>>

RECURSIVE MonthOfDay(_, _)
MonthOfDay(day, m) ==
    IF m = Len(MonthLengths) \/ day < MonthLengths[m] THEN m
    ELSE MonthOfDay(day - MonthLengths[m], m + 1)

dt_month(ts) == MonthOfDay(dt_date(ts), 1)

\* datetime.isoformat()
dt_isoformat(ts) == <<dt_date(ts), dt_hour(ts), dt_minute(ts), ts % 60>>

\* TimeWindowBucketer.bucket_timestamp: the bucket label, as the fields the
\* format string prints
\* the 15-minute label rounded to the nearest quarter instead of down
bucket_timestamp_rounds_quarter(timestamp, window) ==
    CASE window = "1m"  -> <<dt_date(timestamp), dt_hour(timestamp), dt_minute(timestamp)>>
      [] window = "5m"  -> <<dt_date(timestamp), dt_hour(timestamp), (dt_minute(timestamp) \div 5) * 5>>
      [] window = "15m" -> <<dt_date(timestamp), dt_hour(timestamp),
                             (((dt_minute(timestamp) + 7) \div 15) * 15) % 60>>
      [] window = "1h"  -> <<dt_date(timestamp), dt_hour(timestamp), 0>>
      [] window = "1d"  -> <<dt_date(timestamp)>>
      [] window = "1w"  -> <<"W", dt_isoweek(timestamp)>>
      [] window = "1M"  -> <<"M", dt_month(timestamp)>>

bucket_timestamp(timestamp, window) ==
    CASE window = "1m"  -> <<dt_date(timestamp), dt_hour(timestamp), dt_minute(timestamp)>>
      [] window = "5m"  -> <<dt_date(timestamp), dt_hour(timestamp), (dt_minute(timestamp) \div 5) * 5>>
      [] window = "15m" -> <<dt_date(timestamp), dt_hour(timestamp), (dt_minute(timestamp) \div 15) * 15>>
      [] window = "1h"  -> <<dt_date(timestamp), dt_hour(timestamp), 0>>
      [] window = "1d"  -> <<dt_date(timestamp)>>
      [] window = "1w"  -> <<"W", dt_isoweek(timestamp)>>
      [] window = "1M"  -> <<"M", dt_month(timestamp)>>

\* TimeWindowBucketer.get_window_duration, in seconds
get_window_duration(window) ==
    CASE window = "1m"  -> 60
      [] window = "5m"  -> 5 * 60
      [] window = "15m" -> 15 * 60
      [] window = "1h"  -> 3600
      [] window = "1d"  -> 86400
      [] window = "1w"  -> 7 * 86400
      [] window = "1M"  -> 30 * 86400

\* TimeWindowBucketer.get_window_range: the bucket of end_time - duration * i
\* for i = 0 .. count - 1
get_window_range(end_time, window, count) ==
    [i \in 1..count |->
        bucket_timestamp(end_time - get_window_duration(window) * (i - 1), window)]

retention_multipliers(window) ==
    CASE window = "1m"  -> 60
      [] window = "5m"  -> 144
      [] window = "15m" -> 96
      [] window = "1h"  -> 168
      [] window = "1d"  -> 90
      [] window = "1w"  -> 52
      [] window = "1M"  -> 24

get_retention_seconds(window) == get_window_duration(window) * retention_multipliers(window)

\* RedisKeyGenerator: the key f"{kind}:{metric}:{system}:{window}:{bucket}", as
\* the tuple of its parts
hll_key(metric, system, window, timestamp) ==
    <<"hll", metric, system, window, bucket_timestamp(timestamp, window)>>

bloom_key(metric, system, window, timestamp) ==
    <<"bloom", metric, system, window, bucket_timestamp(timestamp, window)>>

topk_key(metric, system, window, timestamp) ==
    <<"topk", metric, system, window, bucket_timestamp(timestamp, window)>>

(***************************************************************************)
(* The time-window part: one call of a static method of                    *)
(* TimeWindowBucketer per behaviour, on timestamps around the bucket       *)
(* boundaries of the first days.                                           *)
(***************************************************************************)
MaxDays == 1

\* seconds of the day next to the boundaries of the 1m, 5m, 15m and 1h buckets
DayOffsets ==
    {0, 1, 59, 60, 61, 299, 300, 899, 900, 901, 3599, 3600, 3601, 7200, 86399}

SampleTimes == {d * 86400 + o : d \in 0..MaxDays, o \in DayOffsets}

TwIdle == twOut = [op |-> "none"]

\* datetime.fromisoformat(label) for the label of a 1m .. 1d bucket
label_datetime(label) ==
    IF Len(label) = 1 THEN label[1] * 86400
    ELSE label[1] * 86400 + label[2] * 3600 + label[3] * 60

\* bucket_timestamp(a, window), bucket_timestamp(b, window) and
\* bucket_timestamp of the instant the first label denotes
TwBucket(a, b, window) ==
    /\ twOut.op = "none"
    /\ twOut' = [op |-> "bucket_timestamp", a |-> a, b |-> b, window |-> window,
                 label_a |-> bucket_timestamp(a, window),
                 label_b |-> bucket_timestamp(b, window),
                 again |-> bucket_timestamp(
                               label_datetime(bucket_timestamp(a, window)), window)]
    /\ UNCHANGED notTwVars

\* the largest count passed to get_window_range
MaxRangeCount == 3

\* 2024-01-31, 2024-03-01, 2024-03-31 and 2024-05-15, at 10:30
RangeEnds == {d * 86400 + 10 * 3600 + 1800 : d \in {30, 60, 90, 135}}

\* TimeWindowBucketer.get_window_range(end_time, window, count)
TwRange(end_time, window, count) ==
    /\ twOut.op = "none"
    /\ end_time - get_window_duration(window) * (count - 1) >= 0
    /\ twOut' = [op |-> "get_window_range", end_time |-> end_time, window |-> window,
                 count |-> count, buckets |-> get_window_range(end_time, window, count)]
    /\ UNCHANGED notTwVars

NextTw ==
    \/ \E a \in SampleTimes, b \in SampleTimes, window \in {"1m", "5m", "15m", "1h", "1d"} :
          TwBucket(a, b, window)
    \/ \E end_time \in RangeEnds, window \in TimeWindow, count \in 1..MaxRangeCount :
          TwRange(end_time, window, count)

\* C16: for the windows 1m, 5m, 15m, 1h and 1d of 60, 300, 900, 3600 and
\* 86400 seconds, two timestamps get the same label exactly when they lie in
\* the same aligned interval [start, start + duration), the label denotes
\* that start, and the label of the start is the label again.
C16_LabelIsAlignedInterval ==
    twOut.op = "bucket_timestamp" =>
        LET duration == CASE twOut.window = "1m" -> 60
                          [] twOut.window = "5m" -> 300
                          [] twOut.window = "15m" -> 900
                          [] twOut.window = "1h" -> 3600
                          [] twOut.window = "1d" -> 86400
            start    == (twOut.a \div duration) * duration
        IN  /\ (twOut.label_a = twOut.label_b)
                  <=> (start <= twOut.b /\ twOut.b < start + duration)
            /\ label_datetime(twOut.label_a) = start
            /\ twOut.again = twOut.label_a

\* b is the last second of a's bucket and a is neither its start nor its end,
\* on a day after the first
C16_Witness ==
    /\ twOut.op = "bucket_timestamp"
    /\ twOut.window = "15m"
    /\ twOut.a > 86400
    /\ twOut.label_a = twOut.label_b
    /\ twOut.label_a # bucket_timestamp(twOut.b + 1, twOut.window)
    /\ label_datetime(twOut.label_a) < twOut.a /\ twOut.a < twOut.b

\* the position of a bucket in the sequence of the buckets of its window
BucketIndex(label, window) ==
    CASE window = "1M" -> label[2]
      [] window = "1w" -> label[2]
      [] OTHER -> label_datetime(label) \div
                      (CASE window = "1m" -> 60
                         [] window = "5m" -> 300
                         [] window = "15m" -> 900
                         [] window = "1h" -> 3600
                         [] window = "1d" -> 86400)

\* C29: get_window_range(end_time, window, count) returns count pairwise
\* distinct bucket labels: the bucket of end_time and the count - 1 buckets
\* immediately before it, none skipped, for every window type, 1M included.
C29_RangeIsConsecutiveBuckets ==
    twOut.op = "get_window_range" =>
        /\ Len(twOut.buckets) = twOut.count
        /\ \A i \in 1..Len(twOut.buckets), j \in 1..Len(twOut.buckets) :
              i # j => twOut.buckets[i] # twOut.buckets[j]
        /\ twOut.buckets[1] = bucket_timestamp(twOut.end_time, twOut.window)
        /\ \A i \in 1..Len(twOut.buckets) :
              BucketIndex(twOut.buckets[i], twOut.window)
                  = BucketIndex(twOut.buckets[1], twOut.window) - (i - 1)

(***************************************************************************)
(* The Redis server: the commands the storage layer issues.  A key whose   *)
(* expiry time has been reached is absent.  The native HyperLogLog is kept *)
(* as the set of the elements added to it.                                 *)
(***************************************************************************)
\* the reply for an absent key
Nil == [type |-> "nil"]

redis_exists(kv, t, key) ==
    key \in DOMAIN kv /\ (kv[key].exp = -1 \/ t < kv[key].exp)

redis_put(kv, key, entry) ==
    [k \in DOMAIN kv \cup {key} |-> IF k = key THEN entry ELSE kv[k]]

\* GET key
redis_get(kv, t, key) == IF redis_exists(kv, t, key) THEN kv[key].val ELSE Nil

\* an expiry counted from time 0 instead of from the time of the write
redis_setex_from_epoch(kv, t, key, ttl, data) ==
    redis_put(kv, key, [val |-> data, exp |-> ttl])

\* SETEX key ttl data
redis_setex(kv, t, key, ttl, data) == redis_put(kv, key, [val |-> data, exp |-> t + ttl])

\* PFADD key value: creates the key, with no TTL, when it is absent
redis_pfadd(kv, t, key, value) ==
    IF redis_exists(kv, t, key)
    THEN redis_put(kv, key, [val |-> [type |-> "hll", elems |-> kv[key].val.elems \cup {value}],
                             exp |-> kv[key].exp])
    ELSE redis_put(kv, key, [val |-> [type |-> "hll", elems |-> {value}], exp |-> -1])

\* EXPIRE key ttl: no effect on an absent key
redis_expire(kv, t, key, ttl) ==
    IF redis_exists(kv, t, key) THEN [kv EXCEPT ![key].exp = t + ttl] ELSE kv

\* PFCOUNT key
redis_pfcount(kv, t, key) ==
    IF redis_exists(kv, t, key) THEN Cardinality(kv[key].val.elems) ELSE 0

\* PFMERGE dest sources: dest becomes the union of the sources and of dest
\* itself when it exists; a dest created by the command has no TTL
redis_pfmerge(kv, t, dest, sources) ==
    LET live == {k \in {sources[i] : i \in DOMAIN sources} \cup {dest} :
                    redis_exists(kv, t, k)}
    IN  redis_put(kv, dest,
                  [val |-> [type |-> "hll", elems |-> UNION {kv[k].val.elems : k \in live}],
                   exp |-> IF redis_exists(kv, t, dest) THEN kv[dest].exp ELSE -1])

\* DEL key
redis_delete(kv, key) == [k \in DOMAIN kv \ {key} |-> kv[k]]

\* the keyspace once the clock shows t: expired keys are gone
redis_at(kv, t) == [k \in {j \in DOMAIN kv : redis_exists(kv, t, j)} |-> kv[k]]

\* pickle.dumps / pickle.loads of a sketch object
pickle_dumps(obj) == [type |-> "pickle", obj |-> obj]

pickle_loads(data) == data.obj

(***************************************************************************)
(* RedisStorage, app/core/storage.py                                       *)
(* A call runs in a context: the keyspace kv, the clock, the stream pub,   *)
(* the number `left` of Redis round trips until one raises (0: none does), *)
(* the number n of round trips made, err, an exception propagating, the    *)
(* locals obj (the sketch loaded by add_to_bloom or add_to_topk) and       *)
(* success_count (of process_batch), and the processor's log: one entry    *)
(* per process_event call.  A statement reached while an exception         *)
(* propagates is skipped.                                                  *)
(***************************************************************************)
\* settings.BLOOM_CAPACITY and settings.BLOOM_ERROR_RATE, read from the
\* environment; the model runs with BLOOM_CAPACITY=2 BLOOM_ERROR_RATE=0.1
settings_BLOOM_CAPACITY == 2

settings_BLOOM_ERROR_RATE == "0.1"

\* the k of a TopK created by add_to_topk
TOPK_K == 100

IsNil(x) == "type" \in DOMAIN x /\ x.type = "nil"

Ctx(kv, t, pub, left) ==
    [kv |-> kv, now |-> t, pub |-> pub, left |-> left, n |-> 0, err |-> FALSE,
     obj |-> Nil, success_count |-> 0, applied |-> <<>>, failed |-> <<>>, log |-> <<>>]

\* one round trip to Redis
RedisCall(ctx) ==
    IF ctx.err THEN ctx
    ELSE IF ctx.left = 1
    THEN [ctx EXCEPT !.err = TRUE, !.left = 0, !.n = @ + 1]
    ELSE [ctx EXCEPT !.left = IF @ = 0 THEN 0 ELSE @ - 1, !.n = @ + 1]

\* the effect of self.redis.pfadd(key, value)
CtxPfadd(ctx, key, value) ==
    IF ctx.err THEN ctx ELSE [ctx EXCEPT !.kv = redis_pfadd(@, ctx.now, key, value)]

\* the effect of self.redis.expire(key, ttl)
CtxExpire(ctx, key, ttl) ==
    IF ctx.err THEN ctx ELSE [ctx EXCEPT !.kv = redis_expire(@, ctx.now, key, ttl)]

RECURSIVE RedisStorage_add_to_hll(_, _, _, _, _, _)
\* per window: redis.pfadd(key, value), then redis.expire(key, ttl)
RedisStorage_add_to_hll(ctx, metric, system, value, timestamp, windows) ==
    IF windows = <<>> THEN ctx
    ELSE RedisStorage_add_to_hll(
             CtxExpire(
                 RedisCall(CtxPfadd(RedisCall(ctx),
                                    hll_key(metric, system, Head(windows), timestamp),
                                    value)),
                 hll_key(metric, system, Head(windows), timestamp),
                 get_retention_seconds(Head(windows))),
             metric, system, value, timestamp, Tail(windows))

RedisStorage_get_hll_cardinality(kv, t, metric, system, window, timestamp) ==
    redis_pfcount(kv, t, hll_key(metric, system, window, timestamp))

\* _load_bloom and _load_topk: the unpickled object, or Nil for None
RedisStorage_load(kv, t, key) ==
    IF IsNil(redis_get(kv, t, key)) THEN Nil ELSE pickle_loads(redis_get(kv, t, key))

\* _save_bloom and _save_topk
RedisStorage_save(kv, t, key, obj, window) ==
    redis_setex(kv, t, key, get_retention_seconds(window), pickle_dumps(obj))

\* the object add_to_bloom works on after loading
BloomOrNew(loaded) ==
    IF IsNil(loaded) THEN BloomFilter(settings_BLOOM_CAPACITY, settings_BLOOM_ERROR_RATE)
    ELSE loaded

\* the object add_to_topk works on after loading
TopKOrNew(loaded) == IF IsNil(loaded) THEN TopK(TOPK_K) ELSE loaded

\* obj = self._load_...(key), the reply of the GET in hand
CtxLoad(ctx, key) ==
    IF ctx.err THEN ctx ELSE [ctx EXCEPT !.obj = RedisStorage_load(ctx.kv, ctx.now, key)]

\* if bloom is None: bloom = BloomFilter(...); bloom.add(value)
CtxBloomAdd(ctx, value) ==
    IF ctx.err THEN ctx ELSE [ctx EXCEPT !.obj = BloomFilter_add(BloomOrNew(@), value)]

\* if topk is None: topk = TopK(k=100); topk.add(value, count)
CtxTopKAdd(ctx, value, count) ==
    IF ctx.err THEN ctx ELSE [ctx EXCEPT !.obj = TopK_add(TopKOrNew(@), value, count)]

\* the effect of the SETEX of self._save_...(key, obj, window)
CtxSave(ctx, key, window) ==
    IF ctx.err THEN ctx
    ELSE [ctx EXCEPT !.kv = RedisStorage_save(@, ctx.now, key, ctx.obj, window),
                     !.obj = Nil]

RedisStorage_add_to_bloom(ctx, metric, system, value, timestamp, window) ==
    CtxSave(RedisCall(CtxBloomAdd(CtxLoad(RedisCall(ctx),
                                          bloom_key(metric, system, window, timestamp)),
                                  value)),
            bloom_key(metric, system, window, timestamp), window)

RedisStorage_check_bloom(kv, t, metric, system, value, timestamp, window) ==
    IF IsNil(RedisStorage_load(kv, t, bloom_key(metric, system, window, timestamp)))
    THEN FALSE
    ELSE BloomFilter_contains(
             RedisStorage_load(kv, t, bloom_key(metric, system, window, timestamp)), value)

RedisStorage_add_to_topk(ctx, metric, system, value, count, timestamp, window) ==
    CtxSave(RedisCall(CtxTopKAdd(CtxLoad(RedisCall(ctx),
                                         topk_key(metric, system, window, timestamp)),
                                 value, count)),
            topk_key(metric, system, window, timestamp), window)

RedisStorage_get_topk(kv, t, metric, system, k, timestamp, window) ==
    IF IsNil(RedisStorage_load(kv, t, topk_key(metric, system, window, timestamp)))
    THEN <<>>
    ELSE TopK_top_k(RedisStorage_load(kv, t, topk_key(metric, system, window, timestamp)), k)

RECURSIVE window_timestamps(_, _, _)
\* timestamps: current = start_time; while current <= end_time: append, current += duration
window_timestamps(current, end_time, duration) ==
    IF current <= end_time
    THEN <<current>> \o window_timestamps(current + duration, end_time, duration)
    ELSE <<>>

\* topk_list collects the TopK loaded for each timestamp; merged, the monoid
\* sum of topk_list, is computed and not used: the return value is get_topk
\* of start_time's bucket
RedisStorage_aggregate_topk_windows(kv, t, metric, system, window, start_time, end_time, k) ==
    LET timestamps == window_timestamps(start_time, end_time, get_window_duration(window))
    IN  IF \A i \in DOMAIN timestamps :
               IsNil(RedisStorage_load(kv, t, topk_key(metric, system, window, timestamps[i])))
        THEN <<>>
        ELSE RedisStorage_get_topk(kv, t, metric, system, k, start_time, window)

\* the effect of self.redis.publish(channel, message)
CtxPublish(ctx, message) ==
    IF ctx.err THEN ctx ELSE [ctx EXCEPT !.pub = Append(@, message)]

RedisStorage_publish_event(ctx, event_dict) == CtxPublish(RedisCall(ctx), event_dict)

(***************************************************************************)
(* EventProcessor, app/core/processor.py                                   *)
(* An event's metadata dict is the set of its (key, value) pairs.          *)
(***************************************************************************)
Event(event_type, user_id, session_id, system, timestamp, metadata) ==
    [event_type |-> event_type, user_id |-> user_id, session_id |-> session_id,
     system |-> system, timestamp |-> timestamp, metadata |-> metadata]

\* bool(x) of an optional string
Truthy(x) == x \notin {None, ""}

\* key in metadata
meta_has(metadata, key) == \E p \in metadata : p[1] = key

\* metadata.get(key, default)
meta_get(metadata, key, default) ==
    IF meta_has(metadata, key) THEN (CHOOSE p \in metadata : p[1] = key)[2] ELSE default

\* f"{user_id}:{system}"
FormatUserSystem(user_id, system) ==
    CASE user_id = "alice" /\ system = "prod" -> "alice:prod"
      [] user_id = "alice" /\ system = "dev"  -> "alice:dev"
      [] user_id = "bob" /\ system = "prod"   -> "bob:prod"
      [] user_id = "bob" /\ system = "dev"    -> "bob:dev"

\* one call the processor makes on the storage
StorageCall(op, metric, system, value, timestamp, windows) ==
    [op |-> op, metric |-> metric, system |-> system, value |-> value,
     timestamp |-> timestamp, windows |-> windows]

\* an _update_hll that also tracks sessions per week
EventProcessor_update_hll_sessions_weekly(event) ==
    (IF Truthy(event.user_id)
     THEN <<StorageCall("add_to_hll", "users", event.system, event.user_id,
                        event.timestamp, <<"1h", "1d", "1w">>)>>
     ELSE <<>>)
    \o (IF Truthy(event.session_id)
        THEN <<StorageCall("add_to_hll", "sessions", event.system, event.session_id,
                           event.timestamp, <<"1h", "1d", "1w">>)>>
        ELSE <<>>)
    \o (IF meta_has(event.metadata, "ip")
        THEN <<StorageCall("add_to_hll", "ips", event.system,
                           meta_get(event.metadata, "ip", None),
                           event.timestamp, <<"1h", "1d">>)>>
        ELSE <<>>)

\* the calls of _update_hll, in order
EventProcessor_update_hll(event) ==
    (IF Truthy(event.user_id)
     THEN <<StorageCall("add_to_hll", "users", event.system, event.user_id,
                        event.timestamp, <<"1h", "1d", "1w">>)>>
     ELSE <<>>)
    \o (IF Truthy(event.session_id)
        THEN <<StorageCall("add_to_hll", "sessions", event.system, event.session_id,
                           event.timestamp, <<"1h", "1d">>)>>
        ELSE <<>>)
    \o (IF meta_has(event.metadata, "ip")
        THEN <<StorageCall("add_to_hll", "ips", event.system,
                           meta_get(event.metadata, "ip", None),
                           event.timestamp, <<"1h", "1d">>)>>
        ELSE <<>>)

\* an _update_bloom without the weekly user_activity filter
EventProcessor_update_bloom_daily_only(event) ==
    (IF Truthy(event.user_id)
     THEN <<StorageCall("add_to_bloom", "user_activity", event.system,
                        FormatUserSystem(event.user_id, event.system),
                        event.timestamp, <<"1d">>)>>
     ELSE <<>>)
    \o (IF meta_has(event.metadata, "ip")
        THEN <<StorageCall("add_to_bloom", "ip_activity", event.system,
                           meta_get(event.metadata, "ip", None),
                           event.timestamp, <<"1d">>)>>
        ELSE <<>>)

\* the calls of _update_bloom, in order
EventProcessor_update_bloom(event) ==
    (IF Truthy(event.user_id)
     THEN <<StorageCall("add_to_bloom", "user_activity", event.system,
                        FormatUserSystem(event.user_id, event.system),
                        event.timestamp, <<"1d">>),
            StorageCall("add_to_bloom", "user_activity", event.system,
                        FormatUserSystem(event.user_id, event.system),
                        event.timestamp, <<"1w">>)>>
     ELSE <<>>)
    \o (IF meta_has(event.metadata, "ip")
        THEN <<StorageCall("add_to_bloom", "ip_activity", event.system,
                           meta_get(event.metadata, "ip", None),
                           event.timestamp, <<"1d">>)>>
        ELSE <<>>)

\* the calls of _update_topk, in order
EventProcessor_update_topk(event) ==
    (IF Truthy(event.user_id)
     THEN <<StorageCall("add_to_topk", "active_users", event.system, event.user_id,
                        event.timestamp, <<"1h">>)>>
     ELSE <<>>)
    \o (IF meta_has(event.metadata, "ip")
        THEN <<StorageCall("add_to_topk", "active_ips", event.system,
                           meta_get(event.metadata, "ip", None),
                           event.timestamp, <<"1h">>)>>
        ELSE <<>>)
    \o <<StorageCall("add_to_topk", "event_types", event.system, event.event_type,
                     event.timestamp, <<"1h">>)>>
    \o (IF meta_has(event.metadata, "endpoint")
        THEN <<StorageCall("add_to_topk", "endpoints", event.system,
                           meta_get(event.metadata, "endpoint", None),
                           event.timestamp, <<"1h">>)>>
        ELSE <<>>)
    \o (IF event.event_type = "security_event" /\ meta_has(event.metadata, "status_code")
        THEN <<StorageCall("add_to_topk", "failed_logins", event.system,
                           meta_get(event.metadata, "ip", "unknown"),
                           event.timestamp, <<"1h">>)>>
        ELSE <<>>)

\* the call of _publish_event; value is event_dict
EventProcessor_publish_event(event) ==
    <<StorageCall("publish_event", "events:stream", event.system,
                  [event_type |-> event.event_type, system |-> event.system,
                   user_id |-> event.user_id,
                   timestamp |-> dt_isoformat(event.timestamp),
                   metadata |-> event.metadata],
                  event.timestamp, <<>>)>>

\* the storage method a call invokes
RunStorageCall(ctx, c) ==
    CASE c.op = "add_to_hll" ->
            RedisStorage_add_to_hll(ctx, c.metric, c.system, c.value, c.timestamp, c.windows)
      [] c.op = "add_to_bloom" ->
            RedisStorage_add_to_bloom(ctx, c.metric, c.system, c.value, c.timestamp,
                                      Head(c.windows))
      [] c.op = "add_to_topk" ->
            RedisStorage_add_to_topk(ctx, c.metric, c.system, c.value, 1, c.timestamp,
                                     Head(c.windows))
      [] c.op = "publish_event" ->
            RedisStorage_publish_event(ctx, c.value)

\* a call has returned or raised: applied lists the calls that returned and
\* failed holds the one that raised
CtxReturned(ctx, c) ==
    IF ctx.err THEN [ctx EXCEPT !.failed = <<c>>] ELSE [ctx EXCEPT !.applied = Append(@, c)]

RECURSIVE RunStorageCalls(_, _)
\* the calls in order, up to the first that raises
RunStorageCalls(ctx, calls) ==
    IF calls = <<>> \/ ctx.err THEN ctx
    ELSE RunStorageCalls(CtxReturned(RunStorageCall(ctx, Head(calls)), Head(calls)),
                         Tail(calls))

\* everything process_event calls for an event, in order
EventCalls(event) ==
    EventProcessor_update_hll(event) \o EventProcessor_update_bloom(event)
    \o EventProcessor_update_topk(event) \o EventProcessor_publish_event(event)

\* logger.debug("Processed event ...") or logger.error("Error processing event ...")
CtxLog(ctx, event) ==
    [ctx EXCEPT !.log = Append(@, [event |-> event, at |-> ctx.now, ok |-> ~ctx.err])]

\* process_event: the except clause logs and re-raises, so err stays set
EventProcessor_process_event(ctx, event) ==
    CtxLog(RunStorageCalls([ctx EXCEPT !.applied = <<>>, !.failed = <<>>], EventCalls(event)),
           event)

\* a loop body of process_batch that counts every event
process_batch_counts_all(ctx) ==
    [ctx EXCEPT !.err = FALSE, !.success_count = @ + 1]

\* the loop body of process_batch once process_event has returned or raised:
\* success_count += 1, or the except clause, which logs and goes on
process_batch_body(ctx) ==
    IF ctx.err THEN [ctx EXCEPT !.err = FALSE] ELSE [ctx EXCEPT !.success_count = @ + 1]

RECURSIVE EventProcessor_process_batch(_, _, _)
\* process_batch: plan[i] is the round trip of events[i] that raises (0: none);
\* the value returned is success_count of the context
EventProcessor_process_batch(ctx, events, plan) ==
    IF events = <<>> THEN ctx
    ELSE EventProcessor_process_batch(
             process_batch_body(
                 EventProcessor_process_event([ctx EXCEPT !.left = Head(plan)],
                                              Head(events))),
             Tail(events), Tail(plan))

\* the number of Redis round trips process_event makes for an event
RoundTrips(event) == EventProcessor_process_event(Ctx(<<>>, 0, <<>>, 0), event).n

(***************************************************************************)
(* The ingest part.  Clients submit events and batches to the processor.   *)
(* In Spec any Redis round trip of a call may raise, and a client submits  *)
(* an event again only after its processing failed (a retry).              *)
(***************************************************************************)
MaxCalls == 2

\* three events of one hour of system "prod"
Events ==
    { Event("user_login", "alice", None, "prod", 10 * 3600 + 1800, {}),
      Event("api_access", "alice", None, "prod", 10 * 3600 + 1805,
            {<<"endpoint", "/api">>}),
      Event("security_event", None, None, "prod", 10 * 3600 + 1810,
            {<<"ip", "10.0.0.1">>, <<"status_code", "401">>}) }

\* the service starts on an empty keyspace
IngestIdle ==
    /\ redis = <<>>
    /\ now = 0
    /\ published = <<>>
    /\ history = <<>>
    /\ out = [op |-> "none"]
    /\ ticks = 0

\* the events whose processing has completed
Succeeded == {history[i].event : i \in {j \in DOMAIN history : history[j].ok}}

\* POST /events: one process_event call; round trip number fault raises
ProcessEvent(event, fault) ==
    /\ Len(history) < MaxCalls
    /\ event \notin Succeeded
    /\ \E c \in {EventProcessor_process_event(Ctx(redis, now, published, fault), event)} :
           /\ redis' = c.kv
           /\ published' = c.pub
           /\ history' = history \o c.log
           /\ out' = [op |-> "process_event", event |-> event, raised |-> c.err,
                      applied |-> c.applied, failed |-> c.failed]
    /\ UNCHANGED <<now, ticks, notIngestVars>>

\* POST /events/batch: one process_batch call; plan[i] is the round trip of
\* events[i] that raises
ProcessBatch(events, plan) ==
    /\ Len(history) + Len(events) <= MaxCalls
    /\ \A i \in DOMAIN events :
          /\ events[i] \notin Succeeded
          /\ \A j \in 1..(i - 1) : events[j] = events[i] => plan[j] # 0
    /\ \E c \in {EventProcessor_process_batch(Ctx(redis, now, published, 0), events, plan)} :
           /\ redis' = c.kv
           /\ published' = c.pub
           /\ history' = history \o c.log
           /\ out' = [op |-> "process_batch", events |-> events, plan |-> plan,
                      result |-> c.success_count, raised |-> c.err,
                      pubBefore |-> Len(published)]
    /\ UNCHANGED <<now, ticks, notIngestVars>>

\* an event and the round trip of its processing that raises (0: none)
EventFaults == UNION {{<<event, fault>> : fault \in 0..RoundTrips(event)} : event \in Events}

Next ==
    \/ \E ef \in EventFaults : ProcessEvent(ef[1], ef[2])
    \/ \E n \in 0..(MaxCalls - Len(history)) : \E batch \in [1..n -> EventFaults] :
          ProcessBatch([i \in 1..n |-> batch[i][1]], [i \in 1..n |-> batch[i][2]])

\* the message process_event publishes for an event
EventMessage(event) == EventProcessor_publish_event(event)[1].value

\* the sketch values of a keyspace, without the expiry times
SketchValues(kv) == [k \in DOMAIN kv |-> kv[k].val]

RECURSIVE ProcessedOnce(_, _)
\* the keyspace after processing, in order and with no failure, the events
\* of the completed calls of hist
ProcessedOnce(hist, kv) ==
    IF hist = <<>> THEN kv
    ELSE IF Head(hist).ok
    THEN ProcessedOnce(Tail(hist),
             EventProcessor_process_event(Ctx(kv, Head(hist).at, <<>>, 0), Head(hist).event).kv)
    ELSE ProcessedOnce(Tail(hist), kv)

\* C2: when one sketch update of process_event raises, every other storage
\* call the event gives rise to has still been applied, the publish included
C2_FailureDoesNotAbortOthers ==
    (out.op = "process_event" /\ out.raised /\ out.failed[1].op # "publish_event") =>
        \A i \in DOMAIN EventCalls(out.event) :
            LET c == EventCalls(out.event)[i]
            IN  \/ /\ c.op = out.failed[1].op
                   /\ c.metric = out.failed[1].metric
                   /\ c.windows = out.failed[1].windows
                \/ \E j \in DOMAIN out.applied :
                      /\ out.applied[j].op = c.op
                      /\ out.applied[j].metric = c.metric
                      /\ out.applied[j].windows = c.windows

\* C3: once the retry of an event whose processing had failed has succeeded,
\* and no other event is left failed, every sketch holds what it would hold
\* had each event been processed exactly once
C3_RetryProcessesOnce ==
    (/\ out.op = "process_event"
     /\ ~out.raised
     /\ \E i \in DOMAIN history : history[i].event = out.event /\ ~history[i].ok
     /\ \A i \in DOMAIN history : history[i].event \in Succeeded) =>
        SketchValues(redis) = SketchValues(ProcessedOnce(history, <<>>))

\* C4: process_batch does not raise, returns the number of its events whose
\* processing met no exception, a number from 0 to the length of the list,
\* and publishes exactly those events in list order
C4_BatchCountsSuccesses ==
    out.op = "process_batch" =>
        LET okIdx == {i \in DOMAIN out.events : out.plan[i] = 0}
            new   == SubSeq(published, out.pubBefore + 1, Len(published))
        IN  /\ ~out.raised
            /\ out.result = Cardinality(okIdx)
            /\ out.result \in 0..Len(out.events)
            /\ Len(new) = Cardinality(okIdx)
            /\ \A i \in okIdx :
                  new[Cardinality({j \in okIdx : j <= i})] = EventMessage(out.events[i])

\* a batch whose first event failed and whose second event was processed
C4_Witness ==
    /\ out.op = "process_batch"
    /\ Len(out.events) = 2
    /\ out.plan[1] # 0
    /\ out.plan[2] = 0
    /\ out.result = 1
    /\ Len(published) = out.pubBefore + 1

\* C26: a sketch key never exists in the store without a TTL: every key the
\* storage layer created carries an expiry, also after a call that failed
\* between the PFADD and the EXPIRE of add_to_hll.
C26_EveryKeyHasTtl ==
    \A key \in DOMAIN redis : redis[key].exp # -1

(***************************************************************************)
(* Specification SpecQuery: events are processed with no failure, the      *)
(* Redis clock advances, and the storage is queried.                       *)
(***************************************************************************)
MaxTicks == 1

\* events of two days of one week and of the Monday after
QueryEvents ==
    { Event("user_login", "alice", "s1", "prod", 10 * 3600 + 1800, {<<"ip", "10.0.0.1">>}),
      Event("api_access", "bob", None, "prod", 86400 + 9 * 3600, {<<"endpoint", "/api">>}),
      Event("user_login", "alice", None, "dev", 7 * 86400 + 8 * 3600, {}) }

\* 8 days, 90 days and 52 weeks
TickSteps == {8 * 86400, 90 * 86400, 364 * 86400}

\* time passes on the Redis server; keys whose expiry time is reached go
Tick(step) ==
    /\ ticks < MaxTicks
    /\ ticks' = ticks + 1
    /\ now' = now + step
    /\ redis' = redis_at(redis, now + step)
    /\ UNCHANGED <<published, history, out, notIngestVars>>

\* check_bloom("user_activity", system, f"{user_id}:{system}", timestamp, window)
CheckBloom(user_id, system, timestamp, window) ==
    /\ out' = [op |-> "check_bloom", metric |-> "user_activity", system |-> system,
               value |-> FormatUserSystem(user_id, system), timestamp |-> timestamp,
               window |-> window, at |-> now, seen |-> Len(history),
               result |-> RedisStorage_check_bloom(redis, now, "user_activity", system,
                                                   FormatUserSystem(user_id, system),
                                                   timestamp, window)]
    /\ UNCHANGED <<storeVars, history, ticks, notIngestVars>>

NextQuery ==
    \/ \E event \in QueryEvents : ProcessEvent(event, 0)
    \/ \E step \in TickSteps : Tick(step)
    \/ \E user_id \in {"alice", "bob"}, system \in {"prod", "dev"},
          timestamp \in {event.timestamp : event \in QueryEvents},
          window \in {"1h", "1d", "1w"} : CheckBloom(user_id, system, timestamp, window)

\* the Bloom keys written by the first n process_event calls
BloomKeysWritten(n) ==
    {bloom_key(c.metric, c.system, Head(c.windows), c.timestamp) :
        c \in UNION {{EventCalls(history[i].event)[j] :
                         j \in {l \in DOMAIN EventCalls(history[i].event) :
                                   EventCalls(history[i].event)[l].op = "add_to_bloom"}} :
                     i \in 1..n}}

\* C6: check_bloom("user_activity", s, "u:s", T', w), w one of 1d and 1w,
\* is true when a completed process_event of an event of user u and system s
\* had a timestamp in the w-bucket of T' and the key's retention has not run
\* out since; check_bloom on a key never written is false
C6_CheckBloomAfterEvent ==
    out.op = "check_bloom" =>
        /\ (\E i \in 1..out.seen :
               LET h == history[i]
               IN  /\ h.ok
                   /\ Truthy(h.event.user_id)
                   /\ h.event.system = out.system
                   /\ FormatUserSystem(h.event.user_id, h.event.system) = out.value
                   /\ out.window \in {"1d", "1w"}
                   /\ bucket_timestamp(h.event.timestamp, out.window)
                         = bucket_timestamp(out.timestamp, out.window)
                   /\ out.at < h.at + get_retention_seconds(out.window))
              => out.result
        /\ bloom_key(out.metric, out.system, out.window, out.timestamp)
              \notin BloomKeysWritten(out.seen)
              => ~out.result

\* a weekly check answered true for another day of the week of the event,
\* after the clock has advanced
C6_Witness ==
    /\ out.op = "check_bloom"
    /\ out.result
    /\ out.window = "1w"
    /\ \E i \in 1..out.seen :
          /\ history[i].event.user_id = "alice"
          /\ history[i].event.system = out.system
          /\ out.value = "alice:prod"
          /\ dt_date(history[i].event.timestamp) # dt_date(out.timestamp)
          /\ dt_isoweek(history[i].event.timestamp) = dt_isoweek(out.timestamp)
          /\ history[i].at < out.at

\* Specification SpecRetention: the ingest and the clock of SpecQuery alone
NextRetention ==
    \/ \E event \in Events \cup QueryEvents : ProcessEvent(event, 0)
    \/ \E step \in TickSteps : Tick(step)

\* the sketch keys a storage call writes
KeysOfCall(c) ==
    {(CASE c.op = "add_to_hll" -> hll_key(c.metric, c.system, c.windows[i], c.timestamp)
        [] c.op = "add_to_bloom" -> bloom_key(c.metric, c.system, c.windows[i], c.timestamp)
        [] c.op = "add_to_topk" -> topk_key(c.metric, c.system, c.windows[i], c.timestamp)) :
     i \in DOMAIN c.windows}

\* the sketch keys process_event writes for an event
KeysWritten(event) ==
    LET calls == EventCalls(event)
    IN  UNION {KeysOfCall(calls[j]) : j \in DOMAIN calls}

\* C15: the retention is 1h, 12h, 1d, 7d, 90d, 52w and 24 months of 30 days
\* for the windows 1m, 5m, 15m, 1h, 1d, 1w and 1M, and a sketch key whose
\* last write was at time T carries the expiry T + retention of its window:
\* it is present at every time before that and absent from then on.
C15_KeysLiveForRetention ==
    LET retention == [w \in TimeWindow |->
                        CASE w = "1m" -> 3600
                          [] w = "5m" -> 12 * 3600
                          [] w = "15m" -> 86400
                          [] w = "1h" -> 7 * 86400
                          [] w = "1d" -> 90 * 86400
                          [] w = "1w" -> 52 * 7 * 86400
                          [] w = "1M" -> 24 * 30 * 86400]
    IN  /\ \A w \in TimeWindow : get_retention_seconds(w) = retention[w]
        /\ LET written == [j \in DOMAIN history |-> KeysWritten(history[j].event)]
           IN  \A i \in DOMAIN history : \A k \in written[i] :
                  LET writes == {j \in DOMAIN history : k \in written[j]}
                      T == history[CHOOSE j \in writes : \A l \in writes : l <= j].at
                  IN  IF now < T + retention[k[4]]
                      THEN /\ redis_exists(redis, now, k)
                           /\ redis[k].exp = T + retention[k[4]]
                      ELSE ~redis_exists(redis, now, k)

\* 8 days after the only ingest, of an event of a user: the event's 1h keys
\* are gone and its 1d and 1w keys are present
C15_Witness ==
    /\ Len(history) = 1 /\ history[1].at = 0 /\ now = 8 * 86400
    /\ Truthy(history[1].event.user_id)
    /\ \A k \in KeysWritten(history[1].event) :
          redis_exists(redis, now, k) <=> k[4] \in {"1d", "1w"}
    /\ \E k \in KeysWritten(history[1].event) : k[1] = "hll" /\ k[4] = "1h"
    /\ \E k \in KeysWritten(history[1].event) : k[1] = "topk" /\ k[4] = "1h"
    /\ \E k \in KeysWritten(history[1].event) : k[1] = "bloom" /\ k[4] = "1d"

(***************************************************************************)
(* Specification SpecRouting: process_event, with no failure, on events    *)
(* that differ in the fields the routing of _update_hll, _update_bloom and *)
(* _update_topk looks at.                                                  *)
(***************************************************************************)
RoutingMetadata ==
    { {}, {<<"ip", "10.0.0.1">>}, {<<"endpoint", "/api">>},
      {<<"ip", "10.0.0.1">>, <<"endpoint", "/api">>},
      {<<"ip", "10.0.0.1">>, <<"status_code", "401">>},
      {<<"status_code", "401">>} }

RoutingEvents ==
    {Event("user_login", user_id, session_id, "prod", 10 * 3600 + 1800,
           {<<"ip", "10.0.0.2">>, <<"endpoint", "/api">>}) :
        user_id \in {"alice", None, ""}, session_id \in {"s1", None, ""}}
    \cup {Event(event_type, user_id, None, "dev", 86400 + 9 * 3600, metadata) :
            event_type \in {"api_access", "security_event"}, user_id \in {"bob", None},
            metadata \in RoutingMetadata}

NextRouting == \E event \in RoutingEvents : ProcessEvent(event, 0)

C18_FailedLoginsByIp ==
    (out.op = "process_event" /\ ~out.raised) =>
        LET e     == out.event
            calls == {out.applied[j] : j \in {i \in DOMAIN out.applied :
                                                out.applied[i].metric = "failed_logins"}}
        IN  IF e.event_type = "security_event" /\ \E p \in e.metadata : p[1] = "ip"
            THEN \E c \in calls :
                    /\ calls = {c}
                    /\ c.op = "add_to_topk" /\ c.windows = <<"1h">>
                    /\ <<"ip", c.value>> \in e.metadata
            ELSE calls = {}

(***************************************************************************)
(* Specification SpecTopkQuery: add_to_topk fills the hourly active_users  *)
(* sketches of two hours, and get_topk and aggregate_topk_windows read     *)
(* them.                                                                   *)
(***************************************************************************)
MaxItemCount == 2

MaxQueryK == 2

TopkWriteTimes == {10 * 3600 + 1800, 11 * 3600 + 900}

TopkQueryTimes == {10 * 3600, 10 * 3600 + 2700, 11 * 3600, 12 * 3600 + 600}

\* storage.add_to_topk("active_users", "prod", value, count, timestamp, HOUR)
AddToTopk(value, count, timestamp) ==
    /\ count + TopK_query(TopKOrNew(RedisStorage_load(
                   redis, now, topk_key("active_users", "prod", "1h", timestamp))), value)
          <= MaxItemCount
    /\ \E c \in {RedisStorage_add_to_topk(Ctx(redis, now, published, 0), "active_users",
                                          "prod", value, count, timestamp, "1h")} :
           /\ redis' = c.kv
           /\ out' = [op |-> "add_to_topk", value |-> value, count |-> count,
                      timestamp |-> timestamp]
    /\ UNCHANGED <<now, published, history, ticks, notIngestVars>>

\* storage.get_topk("active_users", "prod", k, timestamp, HOUR)
GetTopk(k, timestamp) ==
    /\ out' = [op |-> "get_topk", k |-> k, timestamp |-> timestamp,
               result |-> RedisStorage_get_topk(redis, now, "active_users", "prod", k,
                                                timestamp, "1h")]
    /\ UNCHANGED <<storeVars, history, ticks, notIngestVars>>

\* storage.aggregate_topk_windows("active_users", "prod", HOUR, start_time, end_time, k)
AggregateTopkWindows(start_time, end_time, k) ==
    /\ out' = [op |-> "aggregate_topk_windows", k |-> k,
               start_time |-> start_time, end_time |-> end_time,
               result |-> RedisStorage_aggregate_topk_windows(
                              redis, now, "active_users", "prod", "1h",
                              start_time, end_time, k)]
    /\ UNCHANGED <<storeVars, history, ticks, notIngestVars>>

NextTopkQuery ==
    \/ \E value \in {"alice", "bob"}, count \in 1..MaxItemCount,
          timestamp \in TopkWriteTimes : AddToTopk(value, count, timestamp)
    \/ \E k \in 0..MaxQueryK, timestamp \in TopkQueryTimes : GetTopk(k, timestamp)
    \/ \E start_time \in TopkQueryTimes, end_time \in TopkQueryTimes, k \in 1..MaxQueryK :
          start_time <= end_time /\ AggregateTopkWindows(start_time, end_time, k)

\* the TopK stored for the hour of a timestamp, or Nil
StoredTopk(timestamp) ==
    RedisStorage_load(redis, now, topk_key("active_users", "prod", "1h", timestamp))

\* C19: get_topk returns at most k entries for every k >= 0, in
\* non-increasing order of count, and they are the k highest-count tracked
\* items of the stored TopK; on a missing key it returns the empty list.
C19_GetTopkReturnsKHighest ==
    out.op = "get_topk" =>
        IF IsNil(StoredTopk(out.timestamp))
        THEN out.result = <<>>
        ELSE LET tracked  == TopKEntries(StoredTopk(out.timestamp))
                 returned == {<<out.result[i].item, out.result[i].count>> :
                                 i \in DOMAIN out.result}
             IN  /\ Len(out.result) <= out.k
                 /\ Len(out.result) = Min(out.k, Cardinality(tracked))
                 /\ Cardinality(returned) = Len(out.result)
                 /\ returned \subseteq tracked
                 /\ \A i \in 1..(Len(out.result) - 1) :
                       out.result[i].count >= out.result[i + 1].count
                 /\ \A r \in returned, x \in tracked \ returned : r[2] >= x[2]

\* C20: aggregate_topk_windows returns the top k of the merge of the TopK
\* stored for the hours of [start_time, end_time]: when these hold at most k
\* distinct items, every item counted in any of them is returned with the
\* sum of its counts.
C20_AggregateMergesAllBuckets ==
    out.op = "aggregate_topk_windows" =>
        LET hours    == {t \in TopkWriteTimes :
                            /\ (t \div 3600) * 3600 + 3600 > out.start_time
                            /\ (t \div 3600) * 3600 <= out.end_time
                            /\ ~IsNil(StoredTopk(t))}
            count(v) == IF hours = {} THEN 0
                        ELSE LET first == CHOOSE t \in hours : \A u \in hours : t <= u
                                 rest  == hours \ {first}
                             IN  TopK_query(StoredTopk(first), v)
                                 + (IF rest = {} THEN 0
                                    ELSE TopK_query(StoredTopk(CHOOSE t \in rest : TRUE), v))
            items    == {v \in {"alice", "bob"} : count(v) > 0}
        IN  Cardinality(items) <= out.k =>
                /\ Len(out.result) = Cardinality(items)
                /\ \A v \in items : \E i \in DOMAIN out.result :
                      out.result[i].item = v /\ out.result[i].count = count(v)

\* C28: the bucket enumeration of aggregate_topk_windows for the range
\* [start_time, end_time] visits every hourly bucket that contains an instant
\* of the range, exactly once each; in particular the bucket containing
\* end_time, also when start_time is not aligned to a bucket boundary.
C28_EnumerationCoversRange ==
    (out.op = "aggregate_topk_windows" /\ out.start_time <= out.end_time) =>
        LET timestamps == window_timestamps(out.start_time, out.end_time,
                                            get_window_duration("1h"))
            visited == [i \in DOMAIN timestamps |-> bucket_timestamp(timestamps[i], "1h")]
            needed == {bucket_timestamp(h * 3600, "1h") :
                          h \in (out.start_time \div 3600)..(out.end_time \div 3600)}
        IN  /\ {visited[i] : i \in DOMAIN visited} = needed
            /\ Cardinality(needed) = Len(visited)
            /\ \E i \in DOMAIN visited : visited[i] = bucket_timestamp(out.end_time, "1h")

(***************************************************************************)
(* The query API, app/api/compliance.py                                    *)
(* A datetime is [wall, aware, utcoffset]: the seconds its own fields      *)
(* (date, hour, minute, second) count since 2024-01-01T00:00:00, whether   *)
(* it carries a tzinfo, and that offset in seconds.  A handler's value is  *)
(* the response status with the keys the storage read for it.              *)
(***************************************************************************)
datetime(wall, aware, utcoffset) == [wall |-> wall, aware |-> aware, utcoffset |-> utcoffset]

\* timestamp_str.replace("Z", "+00:00") on the sample strings
str_replace_Z(s) ==
    IF s = "2024-01-01T10:30:00Z" THEN "2024-01-01T10:30:00+00:00" ELSE s

\* datetime.fromisoformat on the sample strings
datetime_fromisoformat(s) ==
    CASE s = "2024-01-01T10:30:00"       -> datetime(10 * 3600 + 1800, FALSE, 0)
      [] s = "2024-01-01T10:30:00+00:00" -> datetime(10 * 3600 + 1800, TRUE, 0)
      [] s = "2024-01-01T12:30:00+02:00" -> datetime(12 * 3600 + 1800, TRUE, 7200)
      [] s = "2024-01-02"                -> datetime(86400, FALSE, 0)
      [] OTHER                           -> ValueError

\* Event.parse_timestamp, the validator of the timestamp field, on a string
Event_parse_timestamp(v) == datetime_fromisoformat(str_replace_Z(v))

\* datetime.utcnow()
datetime_utcnow(t) == datetime(t, FALSE, 0)

\* TimeWindow(window_str), or the ValueError raised in its place
parse_window_string(window_str) ==
    IF window_str \in TimeWindow THEN [value |-> window_str] ELSE ValueError

\* request.args.get(name, default)
args_get(args, name, default) == IF args[name] = None THEN default ELSE args[name]

\* the timestamp query parameter, parsed, or now
request_timestamp(args, t) ==
    IF Truthy(args.timestamp)
    THEN datetime_fromisoformat(str_replace_Z(args.timestamp))
    ELSE datetime_utcnow(t)

Response(status, reads) == [status |-> status, reads |-> reads]

compliance_snapshot_key(date) == <<"compliance:snapshot", "", "", "", <<dt_date(date.wall)>>>>

get_distinct_count(kv, t, metric, args) ==
    IF ~Truthy(args.system) THEN Response(400, <<>>)
    ELSE IF IsError(parse_window_string(args_get(args, "window", "1h")))
    THEN Response(400, <<>>)
    ELSE IF IsError(request_timestamp(args, t)) THEN Response(400, <<>>)
    ELSE LET window == parse_window_string(args_get(args, "window", "1h")).value
             timestamp == request_timestamp(args, t).wall
         IN  [status |-> 200,
              reads |-> <<hll_key(metric, args.system, window, timestamp)>>,
              count |-> RedisStorage_get_hll_cardinality(kv, t, metric, args.system,
                                                         window, timestamp)]

check_activity(kv, t, args) ==
    IF ~Truthy(args.user_id) \/ ~Truthy(args.system) THEN Response(400, <<>>)
    ELSE IF IsError(parse_window_string(args_get(args, "window", "1d")))
    THEN Response(400, <<>>)
    ELSE IF IsError(request_timestamp(args, t)) THEN Response(400, <<>>)
    ELSE LET window == parse_window_string(args_get(args, "window", "1d")).value
             timestamp == request_timestamp(args, t).wall
         IN  [status |-> 200,
              reads |-> <<bloom_key("user_activity", args.system, window, timestamp)>>,
              accessed |-> RedisStorage_check_bloom(
                               kv, t, "user_activity", args.system,
                               FormatUserSystem(args.user_id, args.system),
                               timestamp, window)]

get_top_k(kv, t, metric, args) ==
    IF ~Truthy(args.system) THEN Response(400, <<>>)
    ELSE IF IsError(parse_window_string(args_get(args, "window", "1h")))
    THEN Response(400, <<>>)
    ELSE IF IsError(request_timestamp(args, t)) THEN Response(400, <<>>)
    ELSE LET window == parse_window_string(args_get(args, "window", "1h")).value
             timestamp == request_timestamp(args, t).wall
         IN  [status |-> 200,
              reads |-> <<topk_key(metric, args.system, window, timestamp)>>,
              items |-> RedisStorage_get_topk(kv, t, metric, args.system, 10,
                                              timestamp, window)]

\* EventProcessor.get_metrics_summary: the eight storage reads, in order
EventProcessor_get_metrics_summary(kv, t, system, timestamp) ==
    [reads |-> <<hll_key("users", system, "1h", timestamp),
                 hll_key("sessions", system, "1h", timestamp),
                 hll_key("ips", system, "1h", timestamp),
                 topk_key("active_users", system, "1h", timestamp),
                 topk_key("active_ips", system, "1h", timestamp),
                 hll_key("users", system, "1d", timestamp),
                 hll_key("sessions", system, "1d", timestamp),
                 hll_key("ips", system, "1d", timestamp)>>,
     hourly |-> [unique_users |-> RedisStorage_get_hll_cardinality(
                                      kv, t, "users", system, "1h", timestamp),
                 unique_sessions |-> RedisStorage_get_hll_cardinality(
                                         kv, t, "sessions", system, "1h", timestamp),
                 unique_ips |-> RedisStorage_get_hll_cardinality(
                                    kv, t, "ips", system, "1h", timestamp),
                 top_users |-> RedisStorage_get_topk(
                                   kv, t, "active_users", system, 10, timestamp, "1h"),
                 top_ips |-> RedisStorage_get_topk(
                                 kv, t, "active_ips", system, 10, timestamp, "1h")],
     daily |-> [unique_users |-> RedisStorage_get_hll_cardinality(
                                     kv, t, "users", system, "1d", timestamp),
                unique_sessions |-> RedisStorage_get_hll_cardinality(
                                        kv, t, "sessions", system, "1d", timestamp),
                unique_ips |-> RedisStorage_get_hll_cardinality(
                                   kv, t, "ips", system, "1d", timestamp)]]

\* the handler has no except ValueError clause: except Exception answers 500
get_metrics_summary(kv, t, system, args) ==
    IF IsError(request_timestamp(args, t)) THEN Response(500, <<>>)
    ELSE LET summary == EventProcessor_get_metrics_summary(
                            kv, t, system, request_timestamp(args, t).wall)
         IN  [status |-> 200, reads |-> summary.reads,
              hourly |-> summary.hourly, daily |-> summary.daily]

get_compliance_snapshot(kv, t, date) ==
    IF IsError(datetime_fromisoformat(date)) THEN Response(400, <<>>)
    ELSE LET key == compliance_snapshot_key(datetime_fromisoformat(date))
         IN  IF IsNil(redis_get(kv, t, key))
             THEN Response(404, <<key>>)
             ELSE [status |-> 200, reads |-> <<key>>, snapshot |-> redis_get(kv, t, key)]

(***************************************************************************)
(* Specification SpecApi: events are ingested, a snapshot is saved, and    *)
(* the five query endpoints are requested with present, absent, valid and  *)
(* malformed parameters.                                                   *)
(***************************************************************************)
ApiWindows == {None, "1h", "1d", "2h", ""}

ApiTimestamps ==
    {None, "2024-01-01T10:30:00", "2024-01-01T10:30:00Z", "2024-01-01T12:30:00+02:00",
     "yesterday", "2024-13-01T00:00:00"}

ApiArgs ==
    [system : {None, "prod"}, user_id : {None, "alice"},
     window : ApiWindows, timestamp : ApiTimestamps]

\* the timestamp strings of the posted events: one instant, two UTC offsets
IngestTimestamps == {"2024-01-01T10:30:00Z", "2024-01-01T12:30:00+02:00"}

\* Event(event_type="user_login", ..., timestamp=s); the processor and the
\* key generator read the datetime's own fields
ApiEvent(s) ==
    Event("user_login", "alice", "s1", "prod", Event_parse_timestamp(s).wall,
          {<<"ip", "10.0.0.1">>})

ApiEvents == {ApiEvent(s) : s \in IngestTimestamps}

\* storage.save_compliance_snapshot(date, data)
SaveSnapshot(date) ==
    /\ ~redis_exists(redis, now, compliance_snapshot_key(date))
    /\ redis' = redis_setex(redis, now, compliance_snapshot_key(date), 86400 * 90,
                            [type |-> "json", date |-> dt_date(date.wall)])
    /\ out' = [op |-> "save_compliance_snapshot"]
    /\ UNCHANGED <<now, published, history, ticks, notIngestVars>>

\* one GET request, the last step of a behaviour; the handlers only read
ApiGet(endpoint, metric, args, date) ==
    /\ out.op # "GET"
    /\ out' = [op |-> "GET", endpoint |-> endpoint, args |-> args, date |-> date,
               response |->
                   CASE endpoint = "distinct" -> get_distinct_count(redis, now, metric, args)
                     [] endpoint = "activity" -> check_activity(redis, now, args)
                     [] endpoint = "top"      -> get_top_k(redis, now, metric, args)
                     [] endpoint = "summary"  ->
                            get_metrics_summary(redis, now, "prod", args)
                     [] endpoint = "snapshot" -> get_compliance_snapshot(redis, now, date)]
    /\ UNCHANGED <<storeVars, history, ticks, notIngestVars>>

NextApi ==
    \/ \E event \in ApiEvents : ProcessEvent(event, 0)
    \/ SaveSnapshot(datetime(86400, FALSE, 0))
    \/ \E args \in ApiArgs :
          \/ ApiGet("distinct", "users", args, None)
          \/ ApiGet("activity", "user_activity", args, None)
          \/ ApiGet("top", "active_users", args, None)
          \/ ApiGet("summary", "", args, None)
    \/ \E date \in {"2024-01-02", "yesterday", "2024-01-01T10:30:00"} :
          ApiGet("snapshot", "", [system |-> None, user_id |-> None,
                                  window |-> None, timestamp |-> None], date)

\* the request carries an unknown window label or a non-ISO timestamp, in a
\* parameter the endpoint takes
ApiMalformed(o) ==
    \/ o.endpoint \in {"distinct", "activity", "top"}
         /\ o.args.window \notin TimeWindow \cup {None}
    \/ o.endpoint # "snapshot" /\ Truthy(o.args.timestamp)
         /\ IsError(datetime_fromisoformat(str_replace_Z(o.args.timestamp)))
    \/ o.endpoint = "snapshot" /\ IsError(datetime_fromisoformat(o.date))

\* C24: every query endpoint answers a request carrying an unknown window
\* label or a non-ISO timestamp with a 4xx status, never a 5xx, and makes no
\* call on the storage for it.
C24_MalformedRequestIs4xx ==
    (out.op = "GET" /\ ApiMalformed(out)) =>
        /\ out.response.status \in 400..499
        /\ out.response.reads = <<>>

\* the instant a datetime denotes, in seconds of UTC; a naive one is UTC
Instant(dt) == dt.wall - dt.utcoffset

\* C30: two event timestamps that denote the same instant are mapped to the
\* same bucket label and so to the same sketch key by the ingest, and a query
\* for that instant reads the key the ingest wrote.
C30_SameInstantSameKey ==
    /\ \A s1 \in IngestTimestamps, s2 \in IngestTimestamps :
          (/\ ApiEvent(s1) \in Succeeded /\ ApiEvent(s2) \in Succeeded
           /\ Instant(Event_parse_timestamp(s1)) = Instant(Event_parse_timestamp(s2))) =>
              \A window \in {"1h", "1d", "1w"} :
                 /\ hll_key("users", "prod", window, ApiEvent(s1).timestamp)
                       = hll_key("users", "prod", window, ApiEvent(s2).timestamp)
                 /\ redis_pfcount(redis, now, hll_key("users", "prod", window,
                                                      ApiEvent(s1).timestamp)) = 1
    /\ (/\ out.op = "GET" /\ out.endpoint = "distinct" /\ out.response.status = 200
        /\ Truthy(out.args.timestamp)) =>
          \A s \in IngestTimestamps :
             (/\ ApiEvent(s) \in Succeeded
              /\ Instant(Event_parse_timestamp(s))
                    = Instant(datetime_fromisoformat(str_replace_Z(out.args.timestamp)))) =>
                 /\ out.response.reads
                       = <<hll_key("users", "prod", args_get(out.args, "window", "1h"),
                                   ApiEvent(s).timestamp)>>
                 /\ out.response.count = 1

(***************************************************************************)
(* Specification SpecRace: two workers call add_to_topk and add_to_bloom   *)
(* on one Redis, each call in its three steps: the GET of _load, the       *)
(* change of the loaded object, the SETEX of _save.  The storage takes no  *)
(* lock, so the steps of two calls interleave freely.                      *)
(***************************************************************************)
MaxRaceCalls == 3

Workers == {"w1", "w2"}

\* calls on one TopK key and on one Bloom key
RaceCalls ==
    {StorageCall("add_to_topk", "active_users", "prod", v, 10 * 3600 + 1800, <<"1h">>) :
        v \in {"alice", "bob"}}
    \cup {StorageCall("add_to_bloom", "user_activity", "prod", v, 10 * 3600 + 1800, <<"1d">>) :
        v \in {"alice:prod", "bob:prod"}}

RaceKey(c) ==
    IF c.op = "add_to_topk"
    THEN topk_key(c.metric, c.system, Head(c.windows), c.timestamp)
    ELSE bloom_key(c.metric, c.system, Head(c.windows), c.timestamp)

WorkerIdle == [pc |-> "idle", call |-> Nil, obj |-> Nil]

RaceIdle ==
    /\ wk = [w \in Workers |-> WorkerIdle]
    /\ wkDone = <<>>

\* a worker enters add_to_topk or add_to_bloom
RaceBegin(w, c) ==
    /\ wk[w].pc = "idle"
    /\ Len(wkDone) + Cardinality({v \in Workers : wk[v].pc # "idle"}) < MaxRaceCalls
    /\ wk' = [wk EXCEPT ![w] = [pc |-> "load", call |-> c, obj |-> Nil]]
    /\ UNCHANGED <<redis, wkDone, notRaceVars>>

\* topk = self._load_topk(key) / bloom = self._load_bloom(key)
RaceLoad(w) ==
    /\ wk[w].pc = "load"
    /\ wk' = [wk EXCEPT ![w].pc = "modify",
                        ![w].obj = RedisStorage_load(redis, now, RaceKey(wk[w].call))]
    /\ UNCHANGED <<redis, wkDone, notRaceVars>>

\* if topk is None: topk = TopK(k=100); topk.add(value, count), and the same
\* for the Bloom filter
RaceModify(w) ==
    /\ wk[w].pc = "modify"
    /\ wk' = [wk EXCEPT ![w].pc = "save",
                        ![w].obj = IF wk[w].call.op = "add_to_topk"
                                   THEN TopK_add(TopKOrNew(@), wk[w].call.value, 1)
                                   ELSE BloomFilter_add(BloomOrNew(@), wk[w].call.value)]
    /\ UNCHANGED <<redis, wkDone, notRaceVars>>

\* self._save_topk(key, topk, window) / self._save_bloom(key, bloom, window)
RaceSave(w) ==
    /\ wk[w].pc = "save"
    /\ redis' = RedisStorage_save(redis, now, RaceKey(wk[w].call), wk[w].obj,
                                  Head(wk[w].call.windows))
    /\ wkDone' = Append(wkDone, wk[w].call)
    /\ wk' = [wk EXCEPT ![w] = WorkerIdle]
    /\ UNCHANGED notRaceVars

NextRace ==
    \/ \E w \in Workers, c \in RaceCalls : RaceBegin(w, c)
    \/ \E w \in Workers : RaceLoad(w)
    \/ \E w \in Workers : RaceModify(w)
    \/ \E w \in Workers : RaceSave(w)

\* C1: once every call has returned, the stored sketches reflect every call:
\* a TopK counts each value as often as add_to_topk was called with it, and
\* a Bloom filter contains each value add_to_bloom was called with
C1_NoLostUpdate ==
    (\A w \in Workers : wk[w].pc = "idle") =>
        \A i \in DOMAIN wkDone :
            LET c   == wkDone[i]
                obj == RedisStorage_load(redis, now, RaceKey(c))
            IN  /\ ~IsNil(obj)
                /\ IF c.op = "add_to_topk"
                   THEN TopK_query(obj, c.value)
                           = Cardinality({j \in DOMAIN wkDone : wkDone[j] = c})
                   ELSE BloomFilter_contains(obj, c.value)

(***************************************************************************)
(* Specification SpecMergeRace: HLL keys are filled by add_to_hll, then    *)
(* two workers call merge_hll_systems on one Redis, each call in its three *)
(* round trips: PFMERGE into the temporary key, PFCOUNT of it, DEL.        *)
(***************************************************************************)
MaxMergeAdds == 2

MaxMergeCalls == 2

MergeSystems == {"prod", "dev"}

MergeTimes == {10 * 3600 + 1800, 10 * 3600 + 1801}

\* merge_hll_systems("users", systems, TimeWindow.DAY, timestamp)
MergeCalls ==
    {[op |-> "merge_hll_systems", metric |-> "users", systems |-> s, window |-> "1d",
      timestamp |-> ts] : s \in {<<"prod">>, <<"dev">>, <<"prod", "dev">>}, ts \in MergeTimes}

\* the HLL keys a call requests
MergeSourceKeys(c) ==
    [i \in DOMAIN c.systems |-> hll_key(c.metric, c.systems[i], c.window, c.timestamp)]

\* f"temp:merge:{metric}:systems:{int(timestamp.timestamp())}"
merge_key(metric, timestamp) == <<"temp:merge", metric, "systems", "", <<timestamp>>>>

\* storage.add_to_hll("users", system, value, timestamp, [TimeWindow.DAY]), before any merge
MergeAddToHll(system, value) ==
    /\ \A w \in Workers : wk[w].pc = "idle"
    /\ wkDone = <<>>
    /\ Cardinality(UNION {redis[k].val.elems : k \in DOMAIN redis}) < MaxMergeAdds
    /\ redis' = RedisStorage_add_to_hll(Ctx(redis, now, published, 0), "users", system,
                                        value, 10 * 3600 + 1800, <<"1d">>).kv
    /\ UNCHANGED <<wk, wkDone, notRaceVars>>

\* a worker enters merge_hll_systems
MergeBegin(w, c) ==
    /\ wk[w].pc = "idle"
    /\ Len(wkDone) + Cardinality({v \in Workers : wk[v].pc # "idle"}) < MaxMergeCalls
    /\ wk' = [wk EXCEPT ![w] = [pc |-> "pfmerge", call |-> c, obj |-> Nil]]
    /\ UNCHANGED <<redis, wkDone, notRaceVars>>

\* self.redis.pfmerge(merge_key, *keys)
MergePfmerge(w) ==
    /\ wk[w].pc = "pfmerge"
    /\ redis' = redis_pfmerge(redis, now, merge_key(wk[w].call.metric, wk[w].call.timestamp),
                              MergeSourceKeys(wk[w].call))
    /\ wk' = [wk EXCEPT ![w].pc = "pfcount"]
    /\ UNCHANGED <<wkDone, notRaceVars>>

\* total = self.redis.pfcount(merge_key)
MergePfcount(w) ==
    /\ wk[w].pc = "pfcount"
    /\ wk' = [wk EXCEPT ![w].pc = "delete",
                        ![w].obj = [total |-> redis_pfcount(
                                        redis, now,
                                        merge_key(wk[w].call.metric, wk[w].call.timestamp))]]
    /\ UNCHANGED <<redis, wkDone, notRaceVars>>

\* self.redis.delete(merge_key); return total
MergeDelete(w) ==
    /\ wk[w].pc = "delete"
    /\ redis' = redis_delete(redis, merge_key(wk[w].call.metric, wk[w].call.timestamp))
    /\ wkDone' = Append(wkDone, [call |-> wk[w].call, total |-> wk[w].obj.total])
    /\ wk' = [wk EXCEPT ![w] = WorkerIdle]
    /\ UNCHANGED notRaceVars

NextMergeRace ==
    \/ \E system \in MergeSystems, value \in {"alice", "bob"} : MergeAddToHll(system, value)
    \/ \E w \in Workers, c \in MergeCalls : MergeBegin(w, c)
    \/ \E w \in Workers : MergePfmerge(w)
    \/ \E w \in Workers : MergePfcount(w)
    \/ \E w \in Workers : MergeDelete(w)

\* C27: under concurrent invocations of merge_hll_systems each call returns
\* the cardinality of the union of exactly the HLL keys it requested.
C27_MergeCountsOwnKeys ==
    \A i \in DOMAIN wkDone :
        wkDone[i].total =
            Cardinality(UNION {redis[k].val.elems :
                                  k \in {MergeSourceKeys(wkDone[i].call)[j] :
                                            j \in DOMAIN wkDone[i].call.systems}
                                        \cap DOMAIN redis})

(***************************************************************************)
(* Specifications                                                          *)
(***************************************************************************)
\* the parts added after the race part, at rest
LaterIdle == HllIdle /\ MomentsIdle /\ TwIdle /\ AggIdle

InitTopK == TopKStart /\ BloomIdle /\ MonoidIdle /\ IngestIdle /\ RaceIdle /\ LaterIdle

SpecTopK == InitTopK /\ [][NextTopK]_vars

InitBloom == BloomStart /\ TopKIdle /\ MonoidIdle /\ IngestIdle /\ RaceIdle /\ LaterIdle

SpecBloom == InitBloom /\ [][BloomNext]_vars

InitMonoid == MonoidStart /\ TopKIdle /\ BloomIdle /\ IngestIdle /\ RaceIdle /\ LaterIdle

SpecMonoid == InitMonoid /\ [][MonoidNext]_vars

Init == IngestIdle /\ TopKIdle /\ BloomIdle /\ MonoidIdle /\ RaceIdle /\ LaterIdle

Spec == Init /\ [][Next]_vars

SpecQuery == Init /\ [][NextQuery]_vars

SpecRetention == Init /\ [][NextRetention]_vars

SpecRace == Init /\ [][NextRace]_vars

SpecRouting == Init /\ [][NextRouting]_vars

SpecTopkQuery == Init /\ [][NextTopkQuery]_vars

SpecHll == Init /\ [][NextHll]_vars

SpecMoments == Init /\ [][NextMoments]_vars

SpecTw == Init /\ [][NextTw]_vars

SpecAgg == Init /\ [][NextAgg]_vars

SpecApi == Init /\ [][NextApi]_vars

SpecMergeRace == Init /\ [][NextMergeRace]_vars

====
